---------------------------- MODULE Spec2Model ----------------------------
(***************************************************************************)
(* ByteCraft: a 32-bit register machine (vm.cpp), its two-pass assembler   *)
(* (asm.cpp) and its BVM container codec (bytecode.cpp).                   *)
(*                                                                         *)
(* A 32-bit unsigned value is the pair <<hi, lo>> of its 16-bit halves, so *)
(* that every std::uint32_t keeps its full width (arithmetic is modulo     *)
(* 2^32) while each half stays inside TLC's integers.                      *)
(***************************************************************************)
EXTENDS Integers, Sequences, FiniteSets, TLC

VARIABLES
    memory_image_,      \* VM: flat image, a function 0..size-1 -> byte
    registers_,         \* VM: a function 0..REG_COUNT-1 -> u32
    code_size_bytes_,   \* VM: size of the code region
    data_size_bytes_,   \* VM: size of the data region
    is_running_,        \* VM: Running (TRUE) or Halted (FALSE)
    cin,                \* bytes still unread on standard input
    cout,               \* bytes written to standard output
    cerr,               \* bytes written to standard error
    trace,              \* last line of dump_registers: <<ip_before, opcode>>
    steps,              \* calls of step() made by run() so far
    pc,                 \* position of the caller in the tool chain
    lines,              \* assemble_string: the non-blank source lines
    line_index,         \* assemble_string: the line the current pass is at
    current_section,    \* assemble_string: "NONE", "MAIN" or "DATA"
    code_pc,            \* assemble_string: code offset counted by pass one
    code_symbols,       \* assemble_string: label -> code offset
    data_decls,         \* assemble_string: <<name, size>> in source order
    data_symbols,       \* assemble_string: DB name -> address
    code_buffer,        \* assemble_string: bytes emitted by pass two
    data_buffer,        \* assemble_string: the zeroed data section
    error_message,      \* the caller's error string
    out_module,         \* the Module assembled, and the one save_bvm writes
    file,               \* the .bvm file: its bytes, or NoFile
    module,             \* the Module load_bvm fills
    call,               \* the caller's last use of a VM accessor
    straight_line       \* history: run() has executed no branch and no
                        \* instruction whose destination register is IP

vm_vars == <<memory_image_, registers_, code_size_bytes_, data_size_bytes_,
             is_running_, cin, cout, cerr, trace, steps>>

asm_vars == <<lines, line_index, current_section, code_pc, code_symbols,
              data_decls, data_symbols, code_buffer, data_buffer>>

io_vars == <<error_message, out_module, file, module>>

vars == <<vm_vars, asm_vars, io_vars, pc, call, straight_line>>

-----------------------------------------------------------------------------
(* isa.hpp *)

R1 == 0
R2 == 1
R3 == 2
R4 == 3
R5 == 4
R6 == 5
R7 == 6
R8 == 7
IP == 8
RF == 9
RS == 10
REG_COUNT == 11

F_EQ == 1
F_GT == 2
F_LT == 4
F_TEST_TRUE == 8
F_BAD_INSTR == 16
F_IP_OOB == 32
F_READ_OOB == 64
F_WRITE_OOB == 128

OP_NOP == 0
OP_MOV == 1
OP_ADD == 2
OP_SUB == 3
OP_XOR == 4
OP_CMP == 5
OP_JMP == 6
OP_JEQ == 7
OP_JNEQ == 8
OP_JLA == 9
OP_JLE == 10
OP_SYSCALL == 11

OT_NONE == 0
OT_REG == 1
OT_IMM == 2
OT_MEM == 3

SC_EXIT == 0
SC_WRITE == 1
SC_READ == 2
SC_OPEN == 3

-----------------------------------------------------------------------------
(* std::uint32_t and std::uint8_t arithmetic *)

Half == 65536
Byte == 256

Hi(w) == w[1]
Lo(w) == w[2]

\* a value below 2^16 as a std::uint32_t
U32(n) == <<0, n>>

Add32(a, b) ==
    LET lo == Lo(a) + Lo(b)
        hi == Hi(a) + Hi(b) + (lo \div Half)
    IN  <<hi % Half, lo % Half>>

Sub32(a, b) ==
    LET lo == Lo(a) - Lo(b)
        borrow == IF lo < 0 THEN 1 ELSE 0
        hi == Hi(a) - Hi(b) - borrow
    IN  <<hi % Half, lo % Half>>

RECURSIVE Xor16(_, _, _)
Xor16(a, b, n) ==
    IF n = 0 THEN 0
    ELSE ((a + b) % 2) + 2 * Xor16(a \div 2, b \div 2, n - 1)

RECURSIVE And16(_, _, _)
And16(a, b, n) ==
    IF n = 0 THEN 0
    ELSE ((a % 2) * (b % 2)) + 2 * And16(a \div 2, b \div 2, n - 1)

Xor32(a, b) == <<Xor16(Hi(a), Hi(b), 16), Xor16(Lo(a), Lo(b), 16)>>
And32(a, b) == <<And16(Hi(a), Hi(b), 16), And16(Lo(a), Lo(b), 16)>>
Not32(a) == <<(Half - 1) - Hi(a), (Half - 1) - Lo(a)>>
Or32(a, b) == Not32(And32(Not32(a), Not32(b)))

\* unsigned comparison
Lt32(a, b) == Hi(a) < Hi(b) \/ (Hi(a) = Hi(b) /\ Lo(a) < Lo(b))
Gt32(a, b) == Lt32(b, a)
Ge32(a, b) == ~Lt32(a, b)

\* static_cast<std::int32_t>: the sign bit, and the signed order
Neg32(a) == Hi(a) >= 32768
SGt32(a, b) ==
    IF Neg32(a) # Neg32(b) THEN Neg32(b) ELSE Gt32(a, b)

\* util.hpp
read_u32_le(data, i) ==
    <<data[i + 2] + Byte * data[i + 3], data[i] + Byte * data[i + 1]>>

\* the four bytes stored most significant first
write_u32_be(data, i, value) ==
    [k \in DOMAIN data |->
        IF k = i THEN Hi(value) \div Byte
        ELSE IF k = i + 1 THEN Hi(value) % Byte
        ELSE IF k = i + 2 THEN Lo(value) \div Byte
        ELSE IF k = i + 3 THEN Lo(value) % Byte
        ELSE data[k]]

write_u32_le(data, i, value) ==
    [k \in DOMAIN data |->
        IF k = i THEN Lo(value) % Byte
        ELSE IF k = i + 1 THEN Lo(value) \div Byte
        ELSE IF k = i + 2 THEN Hi(value) % Byte
        ELSE IF k = i + 3 THEN Hi(value) \div Byte
        ELSE data[k]]

-----------------------------------------------------------------------------
(* vm.cpp.  A machine value m holds what a step reads and writes:          *)
(* r = registers_, mem = memory_image_, run = is_running_, and the three   *)
(* standard streams.  code_size_bytes_ never changes after construction.   *)
(* ub says that the step has subscripted memory_image_ with an index that  *)
(* is not below its size, which std::vector::operator[] leaves undefined.  *)

Machine ==
    [r |-> registers_, mem |-> memory_image_, run |-> is_running_,
     cin |-> cin, cout |-> cout, cerr |-> cerr, ub |-> FALSE]

memory_size(m) == Cardinality(DOMAIN m.mem)

HasFlag(w, bit) == (Lo(w) \div bit) % 2 = 1

\* a fault that records its bit and forgets to stop the VM
Fault_keeps_running(m, bit) ==
    [m EXCEPT !.r[RF] = Or32(@, U32(bit))]

\* registers_[RF] |= bit; is_running_ = false;
Fault(m, bit) ==
    [m EXCEPT !.r[RF] = Or32(@, U32(bit)), !.run = FALSE]

\* address > n and address >= n, for a std::uint32_t address and a size n
\* below 2^16
GtSize(a, n) == Hi(a) > 0 \/ Lo(a) > n
GeSize(a, n) == Hi(a) > 0 \/ Lo(a) >= n

\* the test of oob_read and oob_write.  count is a std::size_t, so the sum
\* address + count is formed in std::size_t and does not wrap at 2^32 where
\* std::size_t is 64 bits wide; where it is 32 bits wide a wrapped sum
\* means address >= 2^32 - count, which the first disjunct already reports
\* for every image smaller than 2^32 - count bytes.
is_out_of_bounds(m, address, count) ==
    \/ GtSize(address, memory_size(m))
    \/ GtSize(count, memory_size(m))
    \/ Hi(address) + Hi(count) > 0
    \/ Lo(address) + Lo(count) > memory_size(m)

oob_read(m, address, count) ==
    IF is_out_of_bounds(m, address, count)
    THEN [m |-> Fault(m, F_READ_OOB), oob |-> TRUE]
    ELSE [m |-> m, oob |-> FALSE]

oob_write(m, address, count) ==
    IF is_out_of_bounds(m, address, count)
    THEN [m |-> Fault(m, F_WRITE_OOB), oob |-> TRUE]
    ELSE [m |-> m, oob |-> FALSE]

\* memory_image_[index], for a whole 32-bit index
subscript(m, index) ==
    [m EXCEPT !.ub = @ \/ GeSize(index, memory_size(m))]

\* &memory_image_[address] after a bounds test c that has passed
element_at(c, address) ==
    IF c.oob THEN c ELSE [c EXCEPT !.m = subscript(@, address)]

\* fetch8 that reads the byte at IP and leaves IP where it is
fetch8_in_place(m) ==
    IF GeSize(m.r[IP], code_size_bytes_)
    THEN [m |-> Fault(m, F_IP_OOB), v |-> 0]
    ELSE [m |-> subscript(m, m.r[IP]), v |-> m.mem[Lo(m.r[IP])]]

fetch8(m) ==
    IF GeSize(m.r[IP], code_size_bytes_)
    THEN [m |-> Fault(m, F_IP_OOB), v |-> 0]
    ELSE [m |-> [subscript(m, m.r[IP]) EXCEPT !.r[IP] = Add32(@, U32(1))],
          v |-> m.mem[Lo(m.r[IP])]]

fetch32(m) ==
    IF GtSize(Add32(m.r[IP], U32(4)), code_size_bytes_)
    THEN [m |-> Fault(m, F_IP_OOB), v |-> U32(0)]
    ELSE [m |-> [subscript(m, m.r[IP]) EXCEPT !.r[IP] = Add32(@, U32(4))],
          v |-> read_u32_le(m.mem, Lo(m.r[IP]))]

load32_checked(c, address) ==
    IF c.oob THEN [m |-> c.m, v |-> U32(0)]
    ELSE [m |-> c.m, v |-> read_u32_le(c.m.mem, Lo(address))]

load32(m, address) ==
    load32_checked(element_at(oob_read(m, address, U32(4)), address), address)

store32_checked(c, address, value) ==
    IF c.oob THEN c.m
    ELSE [c.m EXCEPT !.mem = write_u32_le(@, Lo(address), value)]

store32(m, address, value) ==
    store32_checked(element_at(oob_write(m, address, U32(4)), address),
                    address, value)

\* a comparison that is unsigned whatever rS says
compare_bit_unsigned(signed_mode, lhs, rhs) ==
    IF lhs = rhs THEN F_EQ ELSE IF Gt32(lhs, rhs) THEN F_GT ELSE F_LT

compare_bit(signed_mode, lhs, rhs) ==
    IF signed_mode
    THEN (IF lhs = rhs THEN F_EQ ELSE IF SGt32(lhs, rhs) THEN F_GT ELSE F_LT)
    ELSE (IF lhs = rhs THEN F_EQ ELSE IF Gt32(lhs, rhs) THEN F_GT ELSE F_LT)

\* a comparison that sets its flag and forgets to clear the other two
set_compare_flags_keeps_old(m, lhs, rhs) ==
    [m EXCEPT !.r[RF] =
        Or32(@, U32(compare_bit(Lo(And32(m.r[RS], U32(1))) # 0, lhs, rhs)))]

\* a comparison that clears the four low flags, TEST_TRUE with them
set_compare_flags_clears_test(m, lhs, rhs) ==
    [m EXCEPT !.r[RF] =
        Or32(And32(@, Not32(U32(F_EQ + F_GT + F_LT + F_TEST_TRUE))),
             U32(compare_bit(Lo(And32(m.r[RS], U32(1))) # 0, lhs, rhs)))]

set_compare_flags(m, lhs, rhs) ==
    [m EXCEPT !.r[RF] =
        Or32(And32(@, Not32(U32(F_EQ + F_GT + F_LT))),
             U32(compare_bit(Lo(And32(m.r[RS], U32(1))) # 0, lhs, rhs)))]

\* the text written by SC_WRITE, and the memcpy of SC_READ
RECURSIVE mem_bytes(_, _, _)
mem_bytes(mem, address, count) ==
    IF count = 0 THEN <<>>
    ELSE <<mem[address]>> \o mem_bytes(mem, address + 1, count - 1)

memcpy_in(mem, address, text) ==
    [k \in DOMAIN mem |->
        IF k >= address /\ k < address + Len(text)
        THEN text[k - address + 1] ELSE mem[k]]

\* an input loop that does not count: it reads to the end of the stream
input_text_to_eof(stream, byte_count) == stream

\* std::cin.get() until byte_count bytes are read or EOF is met
input_text(stream, byte_count) ==
    IF GtSize(byte_count, Len(stream)) THEN stream
    ELSE SubSeq(stream, 1, Lo(byte_count))

\* a WRITE that knows descriptor 1 only and sends the rest to std::cerr
syscall_write_fd1(c, file_descriptor, text, byte_count) ==
    IF c.oob THEN c.m
    ELSE IF file_descriptor = U32(1)
    THEN [c.m EXCEPT !.cout = @ \o text, !.r[R1] = byte_count]
    ELSE [c.m EXCEPT !.cerr = @ \o text, !.r[R1] = byte_count]

\* case SC_WRITE, after oob_read(buffer_address, byte_count)
syscall_write(c, file_descriptor, text, byte_count) ==
    IF c.oob THEN c.m
    ELSE IF file_descriptor = U32(2)
    THEN [c.m EXCEPT !.cerr = @ \o text, !.r[R1] = byte_count]
    ELSE [c.m EXCEPT !.cout = @ \o text, !.r[R1] = byte_count]

\* case SC_READ, after oob_write(buffer_address, byte_count)
syscall_read(c, buffer_address, text) ==
    IF c.oob THEN c.m
    ELSE [c.m EXCEPT !.cin = SubSeq(@, Len(text) + 1, Len(@)),
                     !.mem = memcpy_in(@, Lo(buffer_address), text),
                     !.r[R1] = U32(Len(text))]

\* a dispatch whose OPEN stub reports success with descriptor 0
handle_syscall_open_zero(m) ==
    IF m.r[R1] = U32(SC_EXIT) THEN [m EXCEPT !.run = FALSE]
    ELSE IF m.r[R1] = U32(SC_WRITE) THEN
        syscall_write(element_at(oob_read(m, m.r[R3], m.r[R4]), m.r[R3]),
                      m.r[R2], mem_bytes(m.mem, Lo(m.r[R3]), Lo(m.r[R4])),
                      m.r[R4])
    ELSE IF m.r[R1] = U32(SC_READ) THEN
        syscall_read(element_at(oob_write(m, m.r[R3], m.r[R4]), m.r[R3]),
                     m.r[R3],
                     IF m.r[R2] = U32(0) THEN input_text(m.cin, m.r[R4])
                     ELSE <<>>)
    ELSE IF m.r[R1] = U32(SC_OPEN)
    THEN [m EXCEPT !.r[R1] = U32(0)]
    ELSE Fault(m, F_BAD_INSTR)

\* syscall_id = r1, file_descriptor = r2, buffer_address = r3, byte_count = r4
handle_syscall(m) ==
    IF m.r[R1] = U32(SC_EXIT) THEN [m EXCEPT !.run = FALSE]
    ELSE IF m.r[R1] = U32(SC_WRITE) THEN
        syscall_write(element_at(oob_read(m, m.r[R3], m.r[R4]), m.r[R3]),
                      m.r[R2], mem_bytes(m.mem, Lo(m.r[R3]), Lo(m.r[R4])),
                      m.r[R4])
    ELSE IF m.r[R1] = U32(SC_READ) THEN
        syscall_read(element_at(oob_write(m, m.r[R3], m.r[R4]), m.r[R3]),
                     m.r[R3],
                     IF m.r[R2] = U32(0) THEN input_text(m.cin, m.r[R4])
                     ELSE <<>>)
    ELSE IF m.r[R1] = U32(SC_OPEN)
    THEN [m EXCEPT !.r[R1] = <<Half - 1, Half - 1>>]
    ELSE Fault(m, F_BAD_INSTR)

dst_type_of(mode) == (mode \div 16) % 16
src_type_of(mode) == mode % 16

(* The source operand of MOV, ADD, SUB, XOR and CMP: the machine after the *)
(* operand is read, its value, and brk, which says that the case has left  *)
(* the switch (break) before its write-back.  A failed fetch8 or fetch32   *)
(* hands back 0, and only the [mem] source looks at is_running_ after it.  *)
(* f is the result of the fetch, l that of load32.                         *)
\* a register source whose index is not checked: an index past the
\* register file reads as 0
source_reg_unchecked(f) ==
    [m |-> f.m, v |-> IF f.v >= REG_COUNT THEN U32(0) ELSE f.m.r[f.v],
     brk |-> FALSE]

source_reg(f) ==
    IF f.v >= REG_COUNT
    THEN [m |-> Fault(f.m, F_BAD_INSTR), v |-> U32(0), brk |-> TRUE]
    ELSE [m |-> f.m, v |-> f.m.r[f.v], brk |-> FALSE]

source_imm(f) == [m |-> f.m, v |-> f.v, brk |-> FALSE]

\* a [mem] source that does not look at is_running_ after load32
source_loaded_unchecked(l) == [m |-> l.m, v |-> l.v, brk |-> FALSE]

source_loaded(l) == [m |-> l.m, v |-> l.v, brk |-> ~l.m.run]

source_mem(f) == source_loaded(load32(f.m, f.v))

read_source(m, src_type, mem_allowed) ==
    IF src_type = OT_REG THEN source_reg(fetch8(m))
    ELSE IF src_type = OT_IMM THEN source_imm(fetch32(m))
    ELSE IF src_type = OT_MEM /\ mem_allowed THEN source_mem(fetch32(m))
    ELSE [m |-> Fault(m, F_BAD_INSTR), v |-> U32(0), brk |-> TRUE]

(* case OP_MOV.  fm is the fetch of the mode byte, d the fetch of the      *)
(* destination register index, a the fetch of the destination address, s   *)
(* the source operand.                                                     *)
\* a write-back that masks every destination the way it masks rS
mov_reg_write_all_masked(dst_reg, s) ==
    IF s.brk THEN s.m
    ELSE [s.m EXCEPT !.r[dst_reg] = And32(s.v, U32(1))]

mov_reg_write(dst_reg, s) ==
    IF s.brk THEN s.m
    ELSE IF dst_reg = RS
    THEN [s.m EXCEPT !.r[RS] = And32(s.v, U32(1))]
    ELSE [s.m EXCEPT !.r[dst_reg] = s.v]

mov_reg(d, src_type) ==
    IF d.v >= REG_COUNT THEN Fault(d.m, F_BAD_INSTR)
    ELSE mov_reg_write(d.v, read_source(d.m, src_type, TRUE))

mov_mem_write(addr, s) ==
    IF s.brk THEN s.m ELSE store32(s.m, addr, s.v)

mov_mem(a, src_type) ==
    mov_mem_write(a.v, read_source(a.m, src_type, FALSE))

mov_mode(fm) ==
    IF dst_type_of(fm.v) = OT_REG
    THEN mov_reg(fetch8(fm.m), src_type_of(fm.v))
    ELSE IF dst_type_of(fm.v) = OT_MEM
    THEN mov_mem(fetch32(fm.m), src_type_of(fm.v))
    ELSE Fault(fm.m, F_BAD_INSTR)

step_mov(m) == mov_mode(fetch8(m))

(* case OP_ADD, OP_SUB, OP_XOR *)
\* an ALU whose ADD stops at 0xFFFFFFFF and whose SUB stops at 0
alu_result_saturating(opcode, lhs, rhs) ==
    IF opcode = OP_ADD
    THEN (IF Lt32(Add32(lhs, rhs), lhs) THEN Not32(U32(0)) ELSE Add32(lhs, rhs))
    ELSE IF opcode = OP_SUB
    THEN (IF Lt32(lhs, rhs) THEN U32(0) ELSE Sub32(lhs, rhs))
    ELSE Xor32(lhs, rhs)

alu_result(opcode, lhs, rhs) ==
    IF opcode = OP_ADD THEN Add32(lhs, rhs)
    ELSE IF opcode = OP_SUB THEN Sub32(lhs, rhs)
    ELSE Xor32(lhs, rhs)

alu_write(opcode, dst_reg, s) ==
    IF s.brk THEN s.m
    ELSE [s.m EXCEPT !.r[dst_reg] = alu_result(opcode, @, s.v)]

alu_dst(opcode, d, src_type) ==
    IF d.v >= REG_COUNT THEN Fault(d.m, F_BAD_INSTR)
    ELSE alu_write(opcode, d.v, read_source(d.m, src_type, TRUE))

alu_mode(opcode, fm) ==
    IF dst_type_of(fm.v) # OT_REG THEN Fault(fm.m, F_BAD_INSTR)
    ELSE alu_dst(opcode, fetch8(fm.m), src_type_of(fm.v))

step_alu(m, opcode) == alu_mode(opcode, fetch8(m))

(* case OP_CMP: lhs is read before the source operand is fetched *)
cmp_flags(lhs, s) ==
    IF s.brk THEN s.m ELSE set_compare_flags(s.m, lhs, s.v)

cmp_lhs(l, src_type) ==
    IF l.v >= REG_COUNT THEN Fault(l.m, F_BAD_INSTR)
    ELSE cmp_flags(l.m.r[l.v], read_source(l.m, src_type, TRUE))

cmp_mode(fm) ==
    IF dst_type_of(fm.v) # OT_REG THEN Fault(fm.m, F_BAD_INSTR)
    ELSE cmp_lhs(fetch8(fm.m), src_type_of(fm.v))

step_cmp(m) == cmp_mode(fetch8(m))

(* case OP_JMP, OP_JEQ, OP_JNEQ, OP_JLA, OP_JLE *)
\* a predicate table whose JLE forgets the EQ case
take_branch_jle_strict(opcode, flags) ==
    IF opcode = OP_JMP THEN TRUE
    ELSE IF opcode = OP_JEQ THEN HasFlag(flags, F_EQ)
    ELSE IF opcode = OP_JNEQ THEN ~HasFlag(flags, F_EQ)
    ELSE IF opcode = OP_JLA THEN HasFlag(flags, F_GT)
    ELSE IF opcode = OP_JLE THEN HasFlag(flags, F_LT)
    ELSE FALSE

take_branch(opcode, flags) ==
    IF opcode = OP_JMP THEN TRUE
    ELSE IF opcode = OP_JEQ THEN HasFlag(flags, F_EQ)
    ELSE IF opcode = OP_JNEQ THEN ~HasFlag(flags, F_EQ)
    ELSE IF opcode = OP_JLA THEN HasFlag(flags, F_GT)
    ELSE IF opcode = OP_JLE THEN HasFlag(flags, F_LT) \/ HasFlag(flags, F_EQ)
    ELSE FALSE

\* a taken branch that adds its operand to IP instead of loading it
branch_effect_relative(m, opcode, target) ==
    IF take_branch(opcode, m.r[RF])
    THEN [m EXCEPT !.r[RF] = Or32(@, U32(F_TEST_TRUE)),
                   !.r[IP] = Add32(@, target)]
    ELSE [m EXCEPT !.r[RF] = And32(@, Not32(U32(F_TEST_TRUE)))]

branch_effect(m, opcode, target) ==
    IF take_branch(opcode, m.r[RF])
    THEN [m EXCEPT !.r[RF] = Or32(@, U32(F_TEST_TRUE)), !.r[IP] = target]
    ELSE [m EXCEPT !.r[RF] = And32(@, Not32(U32(F_TEST_TRUE)))]

branch_imm(opcode, t) == branch_effect(t.m, opcode, t.v)

branch_reg(opcode, f) ==
    IF f.v >= REG_COUNT THEN Fault(f.m, F_BAD_INSTR)
    ELSE branch_effect(f.m, opcode, f.m.r[f.v])

branch_mode(opcode, fm) ==
    IF src_type_of(fm.v) = OT_IMM THEN branch_imm(opcode, fetch32(fm.m))
    ELSE IF src_type_of(fm.v) = OT_REG THEN branch_reg(opcode, fetch8(fm.m))
    ELSE Fault(fm.m, F_BAD_INSTR)

step_branch(m, opcode) == branch_mode(opcode, fetch8(m))

\* the switch of VM::step
dispatch(m, opcode) ==
    IF opcode = OP_NOP THEN m
    ELSE IF opcode = OP_MOV THEN step_mov(m)
    ELSE IF opcode \in {OP_ADD, OP_SUB, OP_XOR} THEN step_alu(m, opcode)
    ELSE IF opcode = OP_CMP THEN step_cmp(m)
    ELSE IF opcode \in {OP_JMP, OP_JEQ, OP_JNEQ, OP_JLA, OP_JLE}
    THEN step_branch(m, opcode)
    ELSE IF opcode = OP_SYSCALL THEN handle_syscall(m)
    ELSE Fault(m, F_BAD_INSTR)

\* after Op opcode = fetch8(): the switch, then dump_registers
step_fetched(ip_before, f) ==
    [m |-> dispatch(f.m, f.v), dumped |-> TRUE, line |-> <<ip_before, f.v>>]

\* a step whose entry check lets IP = code_size through to the fetch
step_entry_off_by_one(m) ==
    IF GtSize(m.r[IP], code_size_bytes_)
    THEN [m |-> Fault(m, F_IP_OOB), dumped |-> FALSE, line |-> <<>>]
    ELSE step_fetched(m.r[IP], fetch8(m))

\* VM::step: the machine after the step, and the line dump_registers
\* prints (none when the step returns at its entry check)
step(m) ==
    IF GeSize(m.r[IP], code_size_bytes_)
    THEN [m |-> Fault(m, F_IP_OOB), dumped |-> FALSE, line |-> <<>>]
    ELSE step_fetched(m.r[IP], fetch8(m))

-----------------------------------------------------------------------------
(* The instruction encoding shared by the assembler's second pass and the  *)
(* VM decoder: [op][mode][dst operand][src operand], REG as one byte, IMM  *)
(* and MEM as four little-endian bytes.  An operand is a record: t is its  *)
(* type nibble, k says how its payload is obtained (a register index, an   *)
(* absolute value, or an offset into the data region, known once the code  *)
(* size is), v is that payload.                                            *)

Max32 == <<Half - 1, Half - 1>>

le32(w) == <<Lo(w) % Byte, Lo(w) \div Byte, Hi(w) % Byte, Hi(w) \div Byte>>

Reg(r) == [t |-> OT_REG, k |-> "reg", v |-> r]
Imm(w) == [t |-> OT_IMM, k |-> "abs", v |-> w]
Mem(w) == [t |-> OT_MEM, k |-> "abs", v |-> w]
MemData(off) == [t |-> OT_MEM, k |-> "data", v |-> off]
ImmData(off) == [t |-> OT_IMM, k |-> "data", v |-> off]
NoOperand == [t |-> OT_NONE, k |-> "none", v |-> 0]

I0(op) == [op |-> op, bare |-> TRUE, d |-> NoOperand, s |-> NoOperand]
I1(op, s) == [op |-> op, bare |-> FALSE, d |-> NoOperand, s |-> s]
I2(op, d, s) == [op |-> op, bare |-> FALSE, d |-> d, s |-> s]

operand_bytes(o, code_size) ==
    IF o.k = "reg" THEN <<o.v>>
    ELSE IF o.k = "abs" THEN le32(o.v)
    ELSE IF o.k = "data" THEN le32(U32(code_size + o.v))
    ELSE <<>>

instr_bytes(i, code_size) ==
    IF i.bare THEN <<i.op>>
    ELSE <<i.op, (i.d.t * 16) + i.s.t>>
         \o operand_bytes(i.d, code_size) \o operand_bytes(i.s, code_size)

RECURSIVE prog_bytes(_, _)
prog_bytes(prog, code_size) ==
    IF prog = <<>> THEN <<>>
    ELSE instr_bytes(Head(prog), code_size) \o prog_bytes(Tail(prog), code_size)

\* the code bytes of a program whose data region starts where its code ends
code_of(prog) == prog_bytes(prog, Len(prog_bytes(prog, 0)))

-----------------------------------------------------------------------------
(* The memory images the VM is constructed with.                           *)

MaxSetup == 2       \* instructions that precede the last two of a program
MaxSteps == 5       \* steps after which a run is no longer followed
DataSize == 4       \* bytes of the data region

InOff == DataSize - 4       \* data offset of the last 4-byte slot that fits
OobOff == DataSize - 3      \* first data offset whose 4 bytes do not fit
HighAddr == <<Half - 1, Half - 2>>      \* 0xFFFFFFFE: addr + 4 passes 2^32
BadReg == REG_COUNT

Branches == {OP_JMP, OP_JEQ, OP_JNEQ, OP_JLA, OP_JLE}

PoolBare == {I0(OP_NOP), I0(OP_SYSCALL), I0(OP_SYSCALL + 1)}

PoolMov ==
    {I2(OP_MOV, Reg(R1), Imm(U32(1))), I2(OP_MOV, Reg(R1), Imm(Max32)),
     I2(OP_MOV, Reg(RS), Imm(Max32)),
     I2(OP_MOV, Reg(RF), Imm(U32(F_GT))),
     I2(OP_MOV, Reg(RF), Imm(<<1, F_TEST_TRUE + F_BAD_INSTR>>)),
     I2(OP_MOV, Reg(RF), Imm(Max32)),
     I2(OP_MOV, Reg(R2), Reg(R1)),
     I2(OP_MOV, Reg(R1), Reg(BadReg)), I2(OP_MOV, Reg(BadReg), Reg(R1)),
     I2(OP_MOV, Reg(R2), MemData(InOff)), I2(OP_MOV, Reg(R2), MemData(OobOff)),
     I2(OP_MOV, Reg(R2), Mem(HighAddr)),
     I2(OP_MOV, MemData(InOff), Reg(R1)), I2(OP_MOV, MemData(OobOff), Reg(R1)),
     I2(OP_MOV, Mem(HighAddr), Reg(R1)), I2(OP_MOV, MemData(InOff), Reg(BadReg)),
     I2(OP_MOV, MemData(InOff), Imm(Max32)), I2(OP_MOV, Mem(HighAddr), Imm(U32(1))),
     I2(OP_MOV, MemData(InOff), MemData(InOff)), I2(OP_MOV, Imm(U32(1)), Reg(R1))}

PoolAlu ==
    {I2(OP_ADD, Reg(R1), Imm(U32(1))), I2(OP_ADD, Reg(R1), Imm(Max32)),
     I2(OP_SUB, Reg(R1), Imm(U32(1))), I2(OP_SUB, Reg(R1), Reg(R2)),
     I2(OP_XOR, Reg(R1), Imm(Max32)),
     I2(OP_ADD, Reg(RS), Imm(U32(2))), I2(OP_XOR, Reg(RS), Imm(Max32)),
     I2(OP_ADD, Reg(R1), MemData(InOff)), I2(OP_ADD, Reg(R1), MemData(OobOff)),
     I2(OP_SUB, MemData(InOff), Reg(R1)), I2(OP_XOR, Reg(BadReg), Reg(R1)),
     I2(OP_ADD, Reg(IP), Imm(Max32)),
     I2(OP_XOR, Reg(RF), Imm(U32(F_TEST_TRUE)))}

PoolCmp ==
    {I2(OP_CMP, Reg(R1), Reg(R2)), I2(OP_CMP, Reg(R1), Imm(U32(1))),
     I2(OP_CMP, Reg(R1), Imm(Max32)),
     I2(OP_CMP, Reg(R1), MemData(InOff)), I2(OP_CMP, Reg(R1), MemData(OobOff)),
     I2(OP_CMP, Reg(BadReg), Reg(R1)), I2(OP_CMP, MemData(InOff), Reg(R1))}

PoolBranch ==
    {I1(op, ImmData(0)) : op \in Branches}
    \cup {I1(op, Reg(R2)) : op \in Branches}
    \cup {I1(OP_JMP, Imm(U32(0))), I1(OP_JMP, MemData(InOff)),
          I1(OP_JEQ, Reg(BadReg))}

\* the instruction a program is about
Pool == PoolBare \cup PoolMov \cup PoolAlu \cup PoolCmp \cup PoolBranch

\* the instructions that prepare registers, flags and data before it
SetupPool ==
    {I2(OP_MOV, Reg(R1), Imm(U32(1))), I2(OP_MOV, Reg(R1), Imm(Max32)),
     I2(OP_MOV, Reg(R2), Reg(R1)),
     I2(OP_MOV, Reg(RS), Imm(Max32)),
     I2(OP_MOV, Reg(RF), Imm(U32(F_GT))),
     I2(OP_MOV, Reg(RF), Imm(<<1, F_TEST_TRUE + F_BAD_INSTR>>)),
     I2(OP_MOV, Reg(RF), Imm(Max32)),
     I2(OP_CMP, Reg(R1), Imm(U32(1))),
     I2(OP_MOV, MemData(InOff), Imm(Max32))}

RECURSIVE SeqsUpTo(_, _)
SeqsUpTo(S, n) ==
    IF n = 0 THEN {<<>>}
    ELSE {<<>>} \cup {<<i>> \o p : i \in S, p \in SeqsUpTo(S, n - 1)}

\* whole programs, entered at offset 0: the setup, the instruction the
\* program is about, and a SYSCALL
WholeCode ==
    {code_of(p \o <<i, I0(OP_SYSCALL)>>) :
        p \in SeqsUpTo(SetupPool, MaxSetup), i \in Pool}

\* a program that ends with or inside the instruction it is about
CutSetup == {<<>>, <<I2(OP_MOV, Reg(R1), Imm(Max32))>>,
             <<I2(OP_MOV, Reg(RF), Imm(Max32))>>}
Prefixes(code, least) == {SubSeq(code, 1, n) : n \in least .. Len(code)}
CutCode ==
    UNION {Prefixes(code_of(Append(p, i)), Len(code_of(p))) :
              p \in CutSetup, i \in Pool}

\* one instruction entered at an offset other than 0
OffEntry ==
    {[code |-> code_of(<<I0(OP_NOP), i>>), entry |-> e] :
        i \in Pool, e \in {U32(1), U32(2), Max32}}

\* the programs of the examples: a comparison of 0xFFFFFFFF with 1 under
\* each signedness, followed by a JLE over a NOP
CmpThenJle(signedness) ==
    code_of(<<I2(OP_MOV, Reg(RS), Imm(signedness)),
              I2(OP_MOV, Reg(R1), Imm(Max32)),
              I2(OP_CMP, Reg(R1), Imm(U32(1))),
              I1(OP_JLE, Imm(U32(28))),    \* the offset of the SYSCALL
              I0(OP_NOP), I0(OP_SYSCALL)>>)
ExampleCode == {CmpThenJle(U32(0)), CmpThenJle(U32(1))}

\* WRITE and READ with their three arguments: descriptors 0, 1, 2 and
\* 0xFFFFFFFF, buffers in the code, in the data, at the end of memory and
\* past it, counts from 0 to past the data region and 0xFFFFFFFF
SyscallProgram(id, fd, buf, len) ==
    code_of(<<I2(OP_MOV, Reg(R1), Imm(U32(id))), I2(OP_MOV, Reg(R2), Imm(fd)),
              I2(OP_MOV, Reg(R3), buf), I2(OP_MOV, Reg(R4), Imm(len)),
              I0(OP_SYSCALL)>>)

SyscallCode ==
    {SyscallProgram(id, fd, buf, len) :
        id \in {SC_WRITE, SC_READ},
        fd \in {U32(0), U32(1), U32(2), Max32},
        buf \in {Imm(U32(1)), ImmData(0), ImmData(2), ImmData(DataSize),
                 ImmData(DataSize + 1), Imm(Max32)},
        len \in {U32(n) : n \in {0, 1, 3, DataSize, DataSize + 1}} \cup {Max32}}

\* SYSCALL with the ID of OPEN and with IDs that name no system call, the
\* low byte or the low half of some of which is the ID of one; a second
\* SYSCALL follows, which finds in r1 what the first returned
SyscallIds ==
    {U32(SC_OPEN), U32(SC_OPEN + 1), U32(Byte + SC_WRITE), <<1, SC_OPEN>>,
     <<1, SC_EXIT>>, Max32}
StubSetup ==
    {<<>>, <<I2(OP_MOV, MemData(InOff), Imm(Max32)),
             I2(OP_MOV, Reg(R8), Imm(Max32))>>,
     <<I2(OP_MOV, Reg(RS), Imm(U32(1))), I2(OP_MOV, Reg(RF), Imm(U32(F_LT)))>>}
StubCode ==
    {code_of(p \o <<I2(OP_MOV, Reg(R1), Imm(id)), I0(OP_SYSCALL),
                    I0(OP_SYSCALL)>>) : p \in StubSetup, id \in SyscallIds}

\* the shapes the assembler refuses, encoded as it would encode them
PoolRejected ==
    {I2(OP_MOV, Imm(U32(1)), Imm(U32(1))), I2(OP_MOV, Imm(U32(1)), MemData(InOff)),
     I2(OP_MOV, MemData(InOff), Mem(HighAddr)),
     I2(OP_ADD, Imm(U32(1)), Reg(R1)), I2(OP_SUB, MemData(InOff), Imm(U32(1))),
     I2(OP_XOR, Imm(U32(1)), MemData(InOff)), I2(OP_XOR, MemData(InOff), Reg(R1)),
     I2(OP_CMP, Imm(U32(1)), Reg(R1)), I2(OP_CMP, Imm(U32(1)), Imm(U32(1))),
     I2(OP_CMP, MemData(InOff), MemData(InOff))}
    \cup {I1(op, MemData(InOff)) : op \in Branches}

RejectedCode ==
    {code_of(p \o <<i, I0(OP_SYSCALL)>>) : p \in CutSetup, i \in PoolRejected}

\* an operand whose type nibble in the mode byte is t
Typed(t, o) == [o EXCEPT !.t = t]

\* instructions with a register index past the register file, with a type
\* nibble that names no operand type, or with an opcode that names no
\* instruction
PoolUndecodable ==
    {I2(OP_ADD, Reg(R1), Reg(BadReg)), I2(OP_CMP, Reg(R1), Reg(BadReg)),
     I2(OP_MOV, Reg(R1), Reg(Byte - 1)), I1(OP_JMP, Reg(Byte - 1)),
     I2(OP_MOV, Typed(4, Reg(R1)), Imm(U32(1))),
     I2(OP_MOV, Reg(R1), Typed(15, Imm(U32(1)))),
     I2(OP_MOV, MemData(InOff), Typed(4, Reg(R1))),
     I2(OP_ADD, Typed(7, Reg(R1)), Imm(U32(1))),
     I2(OP_SUB, Reg(R1), Typed(4, Reg(R2))),
     I2(OP_CMP, Reg(R1), Typed(8, Reg(R2))),
     I2(OP_CMP, Typed(4, Reg(R1)), Reg(R2)),
     I1(OP_JMP, Typed(4, Reg(R2))),
     I2(OP_JMP, Typed(4, NoOperand), Imm(U32(0))),
     I2(OP_JEQ, Typed(15, NoOperand), Reg(R2)),
     I0(Byte - 1)}

UndecodableCode ==
    {code_of(p \o <<i, I0(OP_SYSCALL)>>) : p \in CutSetup, i \in PoolUndecodable}

\* code that is nothing but NOPs, and no code at all
NopCode == {[k \in 1 .. n |-> OP_NOP] : n \in 0 .. 3}

Images ==
    {[code |-> c, entry |-> U32(0)] :
        c \in WholeCode \cup CutCode \cup ExampleCode \cup UndecodableCode
              \cup SyscallCode \cup StubCode \cup RejectedCode \cup NopCode}
    \cup OffEntry

\* main.cpp: memory_image = code_section followed by data_section
flat_image(code, data_size) ==
    [k \in 0 .. (Len(code) + data_size - 1) |->
        IF k < Len(code) THEN code[k + 1] ELSE 0]

StdinText == <<72, 105>>

-----------------------------------------------------------------------------
(* VM::VM and VM::run *)

-----------------------------------------------------------------------------
(* asm.cpp.  A source line is kept as the fields the assembler cuts it     *)
(* into: its one-based line number, what the text is (a section header, a  *)
(* label "name:", a "db name[size]" declaration, or anything else, read as *)
(* an instruction), the mnemonic token and the comma-separated operand     *)
(* tokens.  A token is its text and whether the text stands in brackets.   *)

Tok(text) == [br |-> FALSE, text |-> text]
Bracket(text) == [br |-> TRUE, text |-> text]

SourceLine(n, k, name, op_token, operands) ==
    [line_number |-> n, k |-> k, name |-> name, op_token |-> op_token,
     operands |-> operands]

MainHeader(n) == SourceLine(n, "_main:", "", "", <<>>)
DataHeader(n) == SourceLine(n, "_data:", "", "", <<>>)
LabelLine(n, name) == SourceLine(n, "label", name, "", <<>>)
DbLine(n, name, size_str) == SourceLine(n, "db", name, "db", <<Tok(size_str)>>)
\* a line `db ...` without `[`, without `]`, or with nothing between them
MalformedDbLine(n, name) == SourceLine(n, "db", name, "db", <<>>)
InstrLine(n, op_token, operands) == SourceLine(n, "instr", "", op_token, operands)

\* to_lower, on the spellings that occur in the sources assembled here
to_lower(text) ==
    CASE text = "IP" -> "ip"
      [] text = "rF" -> "rf"
      [] text = "rS" -> "rs"
      [] text = "R1" -> "r1"
      [] text = "MOV" -> "mov"
      [] text = "Syscall" -> "syscall"
      [] OTHER -> text

parse_op(token) ==
    CASE to_lower(token) = "mov" -> OP_MOV
      [] to_lower(token) = "add" -> OP_ADD
      [] to_lower(token) = "sub" -> OP_SUB
      [] to_lower(token) = "xor" -> OP_XOR
      [] to_lower(token) = "cmp" -> OP_CMP
      [] to_lower(token) = "jmp" -> OP_JMP
      [] to_lower(token) = "jeq" -> OP_JEQ
      [] to_lower(token) = "jneq" -> OP_JNEQ
      [] to_lower(token) = "jla" -> OP_JLA
      [] to_lower(token) = "jle" -> OP_JLE
      [] to_lower(token) = "syscall" -> OP_SYSCALL
      [] to_lower(token) = "nop" -> OP_NOP
      [] OTHER -> 255

\* the numeric literals that occur in the sources assembled here, with the
\* value strtoul (0x...) or strtoll (decimal) gives them, cast to 32 bits
NumberOf ==
    ("0" :> U32(0)) @@ ("1" :> U32(1)) @@ ("2" :> U32(2)) @@ ("4" :> U32(4))
    @@ ("8" :> U32(8)) @@ ("0x10" :> U32(16)) @@ ("-1" :> Max32)
    @@ ("0xFFFFFFFE" :> <<Half - 1, Half - 2>>)

parse_number(token) ==
    IF token \in DOMAIN NumberOf
    THEN [ok |-> TRUE, v |-> NumberOf[token]]
    ELSE [ok |-> FALSE, v |-> U32(0)]

RegisterOf ==
    [r1 |-> R1, r2 |-> R2, r3 |-> R3, r4 |-> R4, r5 |-> R5, r6 |-> R6,
     r7 |-> R7, r8 |-> R8, ip |-> IP, rf |-> RF, rs |-> RS]

is_register_token(tok) ==
    ~tok.br /\ to_lower(tok.text) \in DOMAIN RegisterOf

register_of(tok) == RegisterOf[to_lower(tok.text)]

is_mem_bracket(tok) == tok.br

operand_type_of(tok) ==
    IF is_register_token(tok) THEN OT_REG
    ELSE IF is_mem_bracket(tok) THEN OT_MEM
    ELSE OT_IMM

encoded_operand_size(operand_type) ==
    IF operand_type = OT_REG THEN 1
    ELSE IF operand_type = OT_IMM THEN 4
    ELSE IF operand_type = OT_MEM THEN 4
    ELSE 0

\* a pass one that leaves the mode byte of a branch out of its size
encoded_size_branch_short(op, dst_type, src_type) ==
    IF op \in {OP_NOP, OP_SYSCALL} THEN 1
    ELSE IF op \in Branches THEN 1 + encoded_operand_size(src_type)
    ELSE IF op \in {OP_MOV, OP_ADD, OP_SUB, OP_XOR, OP_CMP}
    THEN 1 + 1 + encoded_operand_size(dst_type)
             + encoded_operand_size(src_type)
    ELSE 1

encoded_size(op, dst_type, src_type) ==
    IF op \in {OP_NOP, OP_SYSCALL} THEN 1
    ELSE IF op \in Branches THEN 1 + 1 + encoded_operand_size(src_type)
    ELSE IF op \in {OP_MOV, OP_ADD, OP_SUB, OP_XOR, OP_CMP}
    THEN 1 + 1 + encoded_operand_size(dst_type)
             + encoded_operand_size(src_type)
    ELSE 1

\* an error message: its text, the name it quotes, and the line number it
\* carries (0 when the message carries none)
Err(msg, name, n) == [msg |-> msg, name |-> name, line |-> n]
NoError == Err("", "", 0)

\* operand checks that take anything for the first operand of CMP
shape_error_cmp_any(op, dst_type, src_type) ==
    IF op = OP_CMP THEN ""
    ELSE IF op = OP_MOV
    THEN (IF ~(dst_type = OT_REG \/ dst_type = OT_MEM)
          THEN "mov dst must be reg or [mem]"
          ELSE IF dst_type = OT_MEM /\ src_type = OT_MEM
          THEN "mov [mem],[mem] not allowed"
          ELSE "")
    ELSE (IF dst_type # OT_REG THEN "arith dst must be register" ELSE "")

\* operand checks that let MOV [mem],[mem] and a [mem] destination of ADD,
\* SUB and XOR through
shape_error_mem_allowed(op, dst_type, src_type) ==
    IF op = OP_CMP
    THEN (IF dst_type # OT_REG THEN "cmp lhs must be register" ELSE "")
    ELSE IF op = OP_MOV
    THEN (IF ~(dst_type = OT_REG \/ dst_type = OT_MEM)
          THEN "mov dst must be reg or [mem]"
          ELSE "")
    ELSE (IF dst_type = OT_IMM THEN "arith dst must be register" ELSE "")

\* the operand checks both passes make on MOV, ADD, SUB, XOR and CMP
shape_error(op, dst_type, src_type) ==
    IF op = OP_CMP
    THEN (IF dst_type # OT_REG THEN "cmp lhs must be register" ELSE "")
    ELSE IF op = OP_MOV
    THEN (IF ~(dst_type = OT_REG \/ dst_type = OT_MEM)
          THEN "mov dst must be reg or [mem]"
          ELSE IF dst_type = OT_MEM /\ src_type = OT_MEM
          THEN "mov [mem],[mem] not allowed"
          ELSE "")
    ELSE (IF dst_type # OT_REG THEN "arith dst must be register" ELSE "")

Sized(n) == [ok |-> TRUE, size |-> n, err |-> NoError]
Rejected(msg, name, n) == [ok |-> FALSE, size |-> 0, err |-> Err(msg, name, n)]

\* first pass, one instruction line of _main: the size added to code_pc
first_pass_two_operands(op, dst_type, src_type, n) ==
    IF shape_error(op, dst_type, src_type) # ""
    THEN Rejected(shape_error(op, dst_type, src_type), "", n)
    ELSE Sized(encoded_size(op, dst_type, src_type))

first_pass_operands(op, operands, n) ==
    IF op \in Branches
    THEN (IF Len(operands) # 1 THEN Rejected("branch takes 1 operand", "", n)
          ELSE IF operand_type_of(operands[1]) = OT_MEM
          THEN Rejected("branch target cannot be [mem]", "", n)
          ELSE Sized(encoded_size(op, 0, operand_type_of(operands[1]))))
    ELSE IF Len(operands) # 2
    THEN Rejected("instruction needs 2 operands", "", n)
    ELSE first_pass_two_operands(op, operand_type_of(operands[1]),
                                 operand_type_of(operands[2]), n)

first_pass_instr(op, line) ==
    IF op = 255
    THEN Rejected("unknown opcode", line.op_token, line.line_number)
    ELSE IF op = OP_NOP \/ op = OP_SYSCALL THEN Sized(encoded_size(op, 0, 0))
    ELSE first_pass_operands(op, line.operands, line.line_number)

\* resolve_value that looks in the symbol tables before it tries a number
resolve_value_symbols_first(token) ==
    IF token \in DOMAIN code_symbols
    THEN [ok |-> TRUE, v |-> code_symbols[token]]
    ELSE IF token \in DOMAIN data_symbols
    THEN [ok |-> TRUE, v |-> data_symbols[token]]
    ELSE IF parse_number(token).ok THEN parse_number(token)
    ELSE [ok |-> FALSE, v |-> U32(0)]

\* resolve_value: a number, then a code label, then a data name
resolve_value(token) ==
    IF parse_number(token).ok THEN parse_number(token)
    ELSE IF token \in DOMAIN code_symbols
    THEN [ok |-> TRUE, v |-> code_symbols[token]]
    ELSE IF token \in DOMAIN data_symbols
    THEN [ok |-> TRUE, v |-> data_symbols[token]]
    ELSE [ok |-> FALSE, v |-> U32(0)]

\* second pass: the bytes emitted so far for the line, and the error that
\* ended it when ok is FALSE
Emitted(bytes) == [ok |-> TRUE, bytes |-> bytes, err |-> NoError]
Failed(bytes, msg, name, n) ==
    [ok |-> FALSE, bytes |-> bytes, err |-> Err(msg, name, n)]

\* encode_reg and emit8
emit_reg(e, tok) ==
    IF ~is_register_token(tok) THEN Failed(e.bytes, "expected register", "", 0)
    ELSE Emitted(Append(e.bytes, register_of(tok)))

\* encode_imm or encode_mem (after its bracket test), and emit32
emit_resolved(e, token, n) ==
    IF ~resolve_value(token).ok
    THEN Failed(e.bytes, "unknown symbol", token, n)
    ELSE Emitted(e.bytes \o le32(resolve_value(token).v))

emit_mem(e, tok, n) ==
    IF ~is_mem_bracket(tok) THEN Failed(e.bytes, "expected [mem]", "", 0)
    ELSE emit_resolved(e, tok.text, n)

\* one operand of the given type appended to what the line has emitted
emit_operand(e, operand_type, tok, n) ==
    IF ~e.ok THEN e
    ELSE IF operand_type = OT_REG THEN emit_reg(e, tok)
    ELSE IF operand_type = OT_IMM THEN emit_resolved(e, tok.text, n)
    ELSE IF operand_type = OT_MEM THEN emit_mem(e, tok, n)
    ELSE e

second_pass_branch(op, operands, n) ==
    IF Len(operands) # 1 THEN Failed(<<>>, "branch needs 1 operand", "", n)
    ELSE IF operand_type_of(operands[1]) = OT_MEM
    THEN Failed(<<>>, "branch target cannot be [mem]", "", n)
    ELSE emit_operand(
             Emitted(<<op, OT_NONE * 16 + operand_type_of(operands[1])>>),
             operand_type_of(operands[1]), operands[1], n)

second_pass_emit(op, dst_type, src_type, operands, n) ==
    IF shape_error(op, dst_type, src_type) # ""
    THEN Failed(<<>>, shape_error(op, dst_type, src_type), "", n)
    ELSE emit_operand(
             emit_operand(Emitted(<<op, dst_type * 16 + src_type>>),
                          IF dst_type = OT_IMM THEN OT_NONE ELSE dst_type,
                          operands[1], n),
             src_type, operands[2], n)

second_pass_instr(op, line) ==
    IF op = OP_NOP \/ op = OP_SYSCALL THEN Emitted(<<op>>)
    ELSE IF op \in Branches
    THEN second_pass_branch(op, line.operands, line.line_number)
    ELSE IF Len(line.operands) # 2
    THEN Failed(<<>>, "expected 2 operands", "", line.line_number)
    ELSE second_pass_emit(op, operand_type_of(line.operands[1]),
                          operand_type_of(line.operands[2]), line.operands,
                          line.line_number)

\* the layout between the passes: each DB name gets code_size plus the
\* sizes declared before it, in 32-bit arithmetic
RECURSIVE layout_symbols(_, _, _)
layout_symbols(decls, data_offset_base, running_data_offset) ==
    IF decls = <<>> THEN <<>>
    ELSE (decls[1][1] :> Add32(data_offset_base, running_data_offset))
         @@ layout_symbols(Tail(decls), data_offset_base,
                           Add32(running_data_offset, decls[1][2]))

RECURSIVE total_data_size(_)
total_data_size(decls) ==
    IF decls = <<>> THEN U32(0)
    ELSE Add32(decls[1][2], total_data_size(Tail(decls)))

\* first pass, one line: what the line leaves in the assembler's locals
Pass1(section, pc_value, symbols, decls) ==
    [ok |-> TRUE, err |-> NoError, current_section |-> section,
     code_pc |-> pc_value, code_symbols |-> symbols, data_decls |-> decls]

Pass1Error(msg, name, n) ==
    [ok |-> FALSE, err |-> Err(msg, name, n),
     current_section |-> current_section, code_pc |-> code_pc,
     code_symbols |-> code_symbols, data_decls |-> data_decls]

\* a first pass that binds every label to offset 0
first_pass_label_from_zero(line) ==
    IF line.name = "" THEN Pass1Error("empty label", "", line.line_number)
    ELSE IF line.name \in DOMAIN code_symbols
    THEN Pass1Error("duplicate label", line.name, line.line_number)
    ELSE Pass1("MAIN", code_pc,
               (line.name :> U32(0)) @@ code_symbols, data_decls)

\* a first pass that lets a second declaration rebind the label
first_pass_label_rebinds(line) ==
    IF line.name = "" THEN Pass1Error("empty label", "", line.line_number)
    ELSE Pass1("MAIN", code_pc,
               (line.name :> U32(code_pc)) @@ code_symbols, data_decls)

first_pass_label(line) ==
    IF line.name = "" THEN Pass1Error("empty label", "", line.line_number)
    ELSE IF line.name \in DOMAIN code_symbols
    THEN Pass1Error("duplicate label", line.name, line.line_number)
    ELSE Pass1("MAIN", code_pc,
               (line.name :> U32(code_pc)) @@ code_symbols, data_decls)

first_pass_sized(r) ==
    IF r.ok
    THEN Pass1("MAIN", code_pc + r.size, code_symbols, data_decls)
    ELSE Pass1Error(r.err.msg, r.err.name, r.err.line)

first_pass_main(line) ==
    IF line.k = "label" THEN first_pass_label(line)
    ELSE first_pass_sized(first_pass_instr(parse_op(line.op_token), line))

first_pass_data(line) ==
    IF line.k # "db"
    THEN Pass1Error("only DB declarations allowed in _data", "",
                    line.line_number)
    ELSE IF line.operands = <<>>
    THEN Pass1Error("malformed DB", "", line.line_number)
    ELSE IF line.name = ""
    THEN Pass1Error("DB missing name", "", line.line_number)
    ELSE IF ~parse_number(line.operands[1].text).ok
    THEN Pass1Error("DB size must be a number", "", line.line_number)
    ELSE IF \E i \in 1 .. Len(data_decls) : data_decls[i][1] = line.name
    THEN Pass1Error("duplicate DB name", line.name, 0)
    ELSE Pass1("DATA", code_pc, code_symbols,
               Append(data_decls,
                      <<line.name, parse_number(line.operands[1].text).v>>))

\* a first pass that takes lines before any header as lines of _main
first_pass_line_default_main(line) ==
    IF line.k = "_main:"
    THEN Pass1("MAIN", code_pc, code_symbols, data_decls)
    ELSE IF line.k = "_data:"
    THEN Pass1("DATA", code_pc, code_symbols, data_decls)
    ELSE IF current_section = "DATA" THEN first_pass_data(line)
    ELSE first_pass_main(line)

first_pass_line(line) ==
    IF line.k = "_main:"
    THEN Pass1("MAIN", code_pc, code_symbols, data_decls)
    ELSE IF line.k = "_data:"
    THEN Pass1("DATA", code_pc, code_symbols, data_decls)
    ELSE IF current_section = "MAIN" THEN first_pass_main(line)
    ELSE IF current_section = "DATA" THEN first_pass_data(line)
    ELSE Pass1Error("content outside of any section", "", line.line_number)

\* second pass, one line: the section it leaves and what it emitted
second_pass_line(line) ==
    IF line.k = "_main:" THEN [section |-> "MAIN", e |-> Emitted(<<>>)]
    ELSE IF line.k = "_data:" THEN [section |-> "DATA", e |-> Emitted(<<>>)]
    ELSE IF current_section = "DATA" \/ line.k = "label"
    THEN [section |-> current_section, e |-> Emitted(<<>>)]
    ELSE [section |-> current_section,
          e |-> second_pass_instr(parse_op(line.op_token), line)]

Zeroes(n) == [k \in 1 .. n |-> 0]

\* Module{}: entry_point 0, no code, no data
EmptyModule ==
    [entry_point |-> U32(0), code_section |-> <<>>, data_section |-> <<>>]

-----------------------------------------------------------------------------
(* bytecode.cpp.  A file is [exists, bytes].  The three header words are   *)
(* written and read in the byte order of the host, which is little-endian  *)
(* on the hosts the tool chain is built for.                               *)

MAGIC_BVM == <<66, 86, 77, 0>>

NoFile == [exists |-> FALSE, bytes |-> <<>>]
FileOf(bytes) == [exists |-> TRUE, bytes |-> bytes]

Take(bytes, n) == SubSeq(bytes, 1, IF n < Len(bytes) THEN n ELSE Len(bytes))
Drop(bytes, n) == SubSeq(bytes, n + 1, Len(bytes))

\* a header whose third word repeats the size of the code section
save_bvm_bytes_one_size(m) ==
    MAGIC_BVM \o le32(m.entry_point) \o le32(U32(Len(m.code_section)))
    \o le32(U32(Len(m.code_section))) \o m.code_section \o m.data_section

\* everything save_bvm hands to output_file.write, in order
save_bvm_bytes(m) ==
    MAGIC_BVM \o le32(m.entry_point) \o le32(U32(Len(m.code_section)))
    \o le32(U32(Len(m.data_section))) \o m.code_section \o m.data_section

\* vector::resize(n): the old elements kept, new ones zero
resized(old, n) == [k \in 1 .. n |-> IF k <= Len(old) THEN old[k] ELSE 0]

\* istream::read(buffer, n) from the bytes left in the file: the buffer
\* after it, the bytes left, and whether the stream is still good
read_into(buffer, n, left, good) ==
    IF ~good \/ n = 0 THEN [buffer |-> buffer, left |-> left, good |-> good]
    ELSE [buffer |-> [k \in 1 .. Len(buffer) |->
                         IF k <= Len(left) /\ k <= n THEN left[k]
                         ELSE buffer[k]],
          left |-> Drop(left, n),
          good |-> Len(left) >= n]

Loaded(ok, m, msg) == [ok |-> ok, module |-> m, err |-> Err(msg, "", 0)]

\* the payload reads of load_bvm: c is the read of the code section
load_payload_data(entry_point_value, c, data_section, data_section_size) ==
    Loaded(read_into(data_section, data_section_size, c.left, c.good).good,
           [entry_point |-> entry_point_value,
            code_section |-> c.buffer,
            data_section |->
                read_into(data_section, data_section_size, c.left,
                          c.good).buffer],
           IF read_into(data_section, data_section_size, c.left, c.good).good
           THEN "" ELSE "truncated payload")

load_payload(old, entry_point_value, code_size, data_size, left) ==
    load_payload_data(
        entry_point_value,
        read_into(resized(old.code_section, code_size),
                  code_size, left, TRUE),
        resized(old.data_section, data_size),
        data_size)

\* a std::uint32_t used as the element count of resize and read
size_of(w) == Hi(w) * Half + Lo(w)

\* a load_bvm that takes bytes after the declared payload for an error
load_bvm_no_trailing(bytes, old) ==
    IF Len(bytes) < 4 \/ Take(bytes, 4) # MAGIC_BVM
    THEN Loaded(FALSE, old, "bad magic")
    ELSE IF Len(bytes) < 16 THEN Loaded(FALSE, old, "truncated header")
    ELSE IF Len(bytes) > 16 + size_of(read_u32_le(bytes, 9))
                            + size_of(read_u32_le(bytes, 13))
    THEN Loaded(FALSE, old, "truncated payload")
    ELSE load_payload(old, read_u32_le(bytes, 5),
                      size_of(read_u32_le(bytes, 9)),
                      size_of(read_u32_le(bytes, 13)), Drop(bytes, 16))

\* load_bvm on an opened file holding bytes, old being the caller's module
load_bvm(bytes, old) ==
    IF Len(bytes) < 4 \/ Take(bytes, 4) # MAGIC_BVM
    THEN Loaded(FALSE, old, "bad magic")
    ELSE IF Len(bytes) < 16 THEN Loaded(FALSE, old, "truncated header")
    ELSE load_payload(old, read_u32_le(bytes, 5),
                      size_of(read_u32_le(bytes, 9)),
                      size_of(read_u32_le(bytes, 13)), Drop(bytes, 16))

-----------------------------------------------------------------------------
(* The tool chain: `bytecraft asm` runs the two passes of assemble_string  *)
(* and save_bvm; `bytecraft run` runs load_bvm, builds the memory image    *)
(* and the VM, and calls run().                                            *)

\* a constructor that forgets the entry point
initial_registers_all_zero(entry_point) ==
    [i \in 0 .. (REG_COUNT - 1) |-> U32(0)]

\* VM::VM: memset(registers_, 0, ...); registers_[IP] = entry_point
initial_registers(entry_point) ==
    [i \in 0 .. (REG_COUNT - 1) |-> IF i = IP THEN entry_point ELSE U32(0)]

\* VM::get_register and VM::set_register, which the header declares and the
\* tests call: a read of the register, and a write of it that masks rS to
\* its bit 0 as every write of rS must
get_register(reg) == registers_[reg]

set_register(reg, value) ==
    IF reg = RS THEN [registers_ EXCEPT ![RS] = And32(value, U32(1))]
    ELSE [registers_ EXCEPT ![reg] = value]

\* no accessor has been called
NoCall == [op |-> "none", reg |-> 0, value |-> U32(0),
           prev |-> <<"none", 0, U32(0)>>, fresh |-> TRUE, n |-> 0]

\* the fields of a VM object before its constructor has run
NoMachine ==
    /\ memory_image_ = <<>>
    /\ registers_ = [i \in 0 .. (REG_COUNT - 1) |-> U32(0)]
    /\ code_size_bytes_ = 0
    /\ data_size_bytes_ = 0
    /\ is_running_ = FALSE
    /\ cin = StdinText
    /\ cout = <<>>
    /\ cerr = <<>>
    /\ trace = <<>>
    /\ steps = 0

\* the locals of assemble_string as they are declared
NoAssembly ==
    /\ line_index = 1
    /\ current_section = "NONE"
    /\ code_pc = 0
    /\ code_symbols = <<>>
    /\ data_decls = <<>>
    /\ data_symbols = <<>>
    /\ code_buffer = <<>>
    /\ data_buffer = <<>>

\* a VM constructed on an image, as the tests and `bytecraft run` do
Init ==
    \E img \in Images :
        /\ memory_image_ = flat_image(img.code, DataSize)
        /\ registers_ = [i \in 0 .. (REG_COUNT - 1) |->
                            IF i = IP THEN img.entry ELSE U32(0)]
        /\ code_size_bytes_ = Len(img.code)
        /\ data_size_bytes_ = DataSize
        /\ is_running_ = TRUE
        /\ cin = StdinText
        /\ cout = <<>>
        /\ cerr = <<>>
        /\ trace = <<>>
        /\ steps = 0
        /\ pc = "run"
        /\ call = NoCall
        /\ straight_line = TRUE
        /\ lines = <<>>
        /\ NoAssembly
        /\ error_message = NoError
        /\ out_module = EmptyModule
        /\ file = NoFile
        /\ module = EmptyModule

\* the variables after a step whose result is s
Stepped(s) ==
    /\ registers_' = s.m.r
    /\ memory_image_' = s.m.mem
    /\ is_running_' = s.m.run
    /\ cin' = s.m.cin
    /\ cout' = s.m.cout
    /\ cerr' = s.m.cerr
    /\ trace' = IF s.dumped THEN s.line ELSE trace

\* the instruction step() is about to decode is a branch, or a MOV, ADD, SUB
\* or XOR whose destination is the register IP
leaves_line ==
    LET ip == Lo(registers_[IP]) IN
    /\ Hi(registers_[IP]) = 0 /\ ip < code_size_bytes_
    /\ \/ memory_image_[ip] \in Branches
       \/ /\ memory_image_[ip] \in {OP_MOV, OP_ADD, OP_SUB, OP_XOR}
          /\ ip + 3 <= code_size_bytes_
          /\ dst_type_of(memory_image_[ip + 1]) = OT_REG
          /\ memory_image_[ip + 2] = IP

\* do step(); while (is_running_): a loop that steps without looking first
RunStep_unguarded ==
    /\ pc = "run"
    /\ steps < MaxSteps
    /\ steps' = steps + 1
    /\ Stepped(step(Machine))
    /\ UNCHANGED <<call, code_size_bytes_, data_size_bytes_, pc, asm_vars,
                   io_vars>>
    /\ straight_line' = (straight_line /\ ~leaves_line)

\* while (is_running_) step();
RunStep ==
    /\ pc = "run"
    /\ is_running_
    /\ steps < MaxSteps
    /\ steps' = steps + 1
    /\ Stepped(step(Machine))
    /\ UNCHANGED <<call, code_size_bytes_, data_size_bytes_, pc, asm_vars,
                   io_vars>>
    /\ straight_line' = (straight_line /\ ~leaves_line)

\* a call of step() in a build whose std::vector tests its subscripts: the
\* process stops at the subscript that is not below the size
RunAbort ==
    /\ pc = "run"
    /\ is_running_
    /\ steps < MaxSteps
    /\ step(Machine).m.ub
    /\ steps' = steps + 1
    /\ pc' = "aborted"
    /\ UNCHANGED <<call, straight_line, memory_image_, registers_, code_size_bytes_,
                   data_size_bytes_, is_running_, cin, cout, cerr, trace,
                   asm_vars, io_vars>>

RunReturn ==
    /\ pc = "run"
    /\ ~is_running_
    /\ pc' = "returned"
    /\ UNCHANGED <<call, straight_line, vm_vars, asm_vars, io_vars>>

Next == RunStep \/ RunAbort \/ RunReturn

Spec == Init /\ [][Next]_vars

\* assemble_string, first pass: the line at line_index
FirstPassLine ==
    /\ pc = "first_pass"
    /\ line_index <= Len(lines)
    /\ LET r == first_pass_line(lines[line_index]) IN
        /\ current_section' = r.current_section
        /\ code_pc' = r.code_pc
        /\ code_symbols' = r.code_symbols
        /\ data_decls' = r.data_decls
        /\ error_message' = IF r.ok THEN error_message ELSE r.err
        /\ pc' = IF r.ok THEN pc ELSE "asm_failed"
        /\ line_index' = IF r.ok THEN line_index + 1 ELSE line_index
    /\ UNCHANGED <<call, straight_line, vm_vars, lines, data_symbols, code_buffer, data_buffer,
                   out_module, file, module>>

\* assemble_string between its passes: the data layout and the buffers
Layout ==
    /\ pc = "first_pass"
    /\ line_index > Len(lines)
    /\ data_symbols' = layout_symbols(data_decls, U32(code_pc), U32(0))
    /\ data_buffer' = Zeroes(Lo(total_data_size(data_decls)))
    /\ code_buffer' = <<>>
    /\ current_section' = "NONE"
    /\ line_index' = 1
    /\ pc' = "second_pass"
    /\ UNCHANGED <<call, straight_line, vm_vars, lines, code_pc, code_symbols, data_decls, io_vars>>

\* a second pass that hands out the code emitted so far after every line
SecondPassLine_publishes ==
    /\ pc = "second_pass"
    /\ line_index <= Len(lines)
    /\ LET r == second_pass_line(lines[line_index]) IN
        /\ current_section' = r.section
        /\ code_buffer' = code_buffer \o r.e.bytes
        /\ out_module' = [out_module EXCEPT
                             !.code_section = code_buffer \o r.e.bytes]
        /\ error_message' = IF r.e.ok THEN error_message ELSE r.e.err
        /\ pc' = IF r.e.ok THEN pc ELSE "asm_failed"
        /\ line_index' = IF r.e.ok THEN line_index + 1 ELSE line_index
    /\ UNCHANGED <<call, straight_line, vm_vars, lines, code_pc, code_symbols, data_decls,
                   data_symbols, data_buffer, file, module>>

\* assemble_string, second pass: the line at line_index
SecondPassLine ==
    /\ pc = "second_pass"
    /\ line_index <= Len(lines)
    /\ LET r == second_pass_line(lines[line_index]) IN
        /\ current_section' = r.section
        /\ code_buffer' = code_buffer \o r.e.bytes
        /\ error_message' = IF r.e.ok THEN error_message ELSE r.e.err
        /\ pc' = IF r.e.ok THEN pc ELSE "asm_failed"
        /\ line_index' = IF r.e.ok THEN line_index + 1 ELSE line_index
    /\ UNCHANGED <<call, straight_line, vm_vars, lines, code_pc, code_symbols, data_decls,
                   data_symbols, data_buffer, out_module, file, module>>

\* assemble_string: the module handed out, and return true
AssembleReturn ==
    /\ pc = "second_pass"
    /\ line_index > Len(lines)
    /\ out_module' = [entry_point |-> U32(0), code_section |-> code_buffer,
                      data_section |-> data_buffer]
    /\ pc' = "assembled"
    /\ UNCHANGED <<call, straight_line, vm_vars, asm_vars, error_message, file, module>>

\* save_bvm: the file may fail to open, and the medium may stop taking
\* bytes after any number of them; no write is checked
SaveBvm ==
    /\ pc = "assembled"
    /\ \/ /\ error_message' = Err("cannot open output file", "", 0)
          /\ pc' = "save_failed"
          /\ file' = file
       \/ /\ \E accepted \in 0 .. Len(save_bvm_bytes(out_module)) :
                 file' = FileOf(Take(save_bvm_bytes(out_module), accepted))
          /\ error_message' = error_message
          /\ pc' = "saved"
    /\ UNCHANGED <<call, straight_line, vm_vars, asm_vars, out_module, module>>

\* load_bvm on the file saved
LoadBvm ==
    /\ pc = "saved"
    /\ \/ /\ error_message' = Err("cannot open program file", "", 0)
          /\ pc' = "load_failed"
          /\ module' = module
       \/ /\ file.exists
          /\ LET r == load_bvm(file.bytes, module) IN
              /\ module' = r.module
              /\ error_message' = IF r.ok THEN error_message ELSE r.err
              /\ pc' = IF r.ok THEN "loaded" ELSE "load_failed"
    /\ UNCHANGED <<call, straight_line, vm_vars, asm_vars, out_module, file>>

\* main.cpp: memory_image = code ++ data, and VM::VM
ConstructVM ==
    /\ pc = "loaded"
    /\ memory_image_' =
           [k \in 0 .. (Len(module.code_section) + Len(module.data_section)
                        - 1) |->
               (module.code_section \o module.data_section)[k + 1]]
    /\ registers_' = [i \in 0 .. (REG_COUNT - 1) |->
                         IF i = IP THEN module.entry_point ELSE U32(0)]
    /\ code_size_bytes_' = Len(module.code_section)
    /\ data_size_bytes_' = Len(module.data_section)
    /\ is_running_' = TRUE
    /\ pc' = "run"
    /\ UNCHANGED <<call, straight_line, cin, cout, cerr, trace, steps, asm_vars, io_vars>>


-----------------------------------------------------------------------------
(* The container codec on its own: save_bvm of any module, then load_bvm   *)
(* into a module that is fresh or has been used before.                    *)

MaxCode == 2        \* bytes of code in a module saved
MaxData == 2        \* bytes of data in a module saved

Modules ==
    {[entry_point |-> e, code_section |-> c, data_section |-> d] :
        e \in {U32(0), U32(1), <<258, 772>>},
        c \in SeqsUpTo({0, 255}, MaxCode),
        d \in SeqsUpTo({0, 255}, MaxData)}

UsedModule ==
    [entry_point |-> U32(7), code_section |-> <<9, 9, 9>>,
     data_section |-> <<9>>]

InitCodec ==
    /\ NoMachine
    /\ lines = <<>>
    /\ NoAssembly
    /\ error_message = NoError
    /\ out_module \in Modules
    /\ file = NoFile
    /\ module \in {EmptyModule, UsedModule}
    /\ pc = "assembled"
    /\ call = NoCall
    /\ straight_line = TRUE

NextCodec == SaveBvm \/ LoadBvm

SpecCodec == InitCodec /\ [][NextCodec]_vars

-----------------------------------------------------------------------------
(* The whole tool chain on a source of one instruction, with or without a  *)
(* label before it and a data declaration after it.                        *)

-----------------------------------------------------------------------------
(* load_bvm on files that save_bvm did not write: a wrong magic, a header  *)
(* that declares more or fewer bytes than follow it, and every prefix of   *)
(* such files.                                                             *)

MaxDeclared == 2    \* bytes a header declares for each section
PayloadBytes == <<1, 2, 3, 4, 5, 6, 7>>
Magics == {MAGIC_BVM, <<66, 86, 77, 1>>, <<0, 86, 77, 0>>}

\* a header for c code bytes and d data bytes, followed by one byte more
\* than it declares
LongFile(magic, c, d) ==
    magic \o le32(U32(3)) \o le32(U32(c)) \o le32(U32(d))
    \o SubSeq(PayloadBytes, 1, c + d + 1)

\* a header that declares 2^16 + 1 code bytes, followed by two
HugeFile == MAGIC_BVM \o le32(U32(0)) \o le32(<<1, 1>>) \o le32(U32(0)) \o <<1, 2>>

Files ==
    UNION {Prefixes(LongFile(MAGIC_BVM, c, d), 0) :
              c \in 0 .. MaxDeclared, d \in 0 .. MaxDeclared}
    \cup UNION {Prefixes(LongFile(magic, 1, 1), 0) : magic \in Magics}
    \cup {HugeFile}

InitLoad ==
    /\ NoMachine
    /\ lines = <<>>
    /\ NoAssembly
    /\ error_message = NoError
    /\ out_module = EmptyModule
    /\ file \in {FileOf(bytes) : bytes \in Files}
    /\ module \in {EmptyModule, UsedModule}
    /\ pc = "saved"
    /\ call = NoCall
    /\ straight_line = TRUE

NextLoad == LoadBvm

SpecLoad == InitLoad /\ [][NextLoad]_vars

-----------------------------------------------------------------------------
(* A test that constructs a VM, on an empty memory or on a small program,  *)
(* and uses its accessors before and after it calls run().                 *)

MaxCalls == 2       \* accessor calls a test makes

TestedValues == {U32(2), <<1, 1>>, Max32}
TestedModules ==
    {[entry_point |-> e, code_section |-> c, data_section |-> <<>>] :
        e \in {U32(0), U32(1), Max32}, c \in {<<>>, <<OP_NOP, OP_SYSCALL>>}}

InitReg ==
    /\ module \in TestedModules
    /\ memory_image_ = flat_image(module.code_section, 0)
    /\ registers_ = initial_registers(module.entry_point)
    /\ code_size_bytes_ = Len(module.code_section)
    /\ data_size_bytes_ = 0
    /\ is_running_ = TRUE
    /\ cin = StdinText
    /\ cout = <<>>
    /\ cerr = <<>>
    /\ trace = <<>>
    /\ steps = 0
    /\ lines = <<>>
    /\ NoAssembly
    /\ error_message = NoError
    /\ out_module = EmptyModule
    /\ file = NoFile
    /\ pc = "test"
    /\ call = NoCall
    /\ straight_line = TRUE

Called(op, reg, value, fresh) ==
    [op |-> op, reg |-> reg, value |-> value,
     prev |-> <<call.op, call.reg, call.value>>, fresh |-> fresh,
     n |-> call.n + 1]

SetRegister ==
    /\ pc \in {"test", "returned"}
    /\ call.n < MaxCalls
    /\ \E reg \in 0 .. (REG_COUNT - 1), value \in TestedValues :
        /\ registers_' = set_register(reg, value)
        /\ call' = Called("set", reg, value, FALSE)
    /\ UNCHANGED <<memory_image_, code_size_bytes_, data_size_bytes_,
                   is_running_, cin, cout, cerr, trace, steps, asm_vars,
                   io_vars, pc, straight_line>>

GetRegister ==
    /\ pc \in {"test", "returned"}
    /\ call.n < MaxCalls
    /\ \E reg \in 0 .. (REG_COUNT - 1) :
        call' = Called("get", reg, get_register(reg), call.fresh)
    /\ UNCHANGED <<vm_vars, asm_vars, io_vars, pc, straight_line>>

\* vm.run()
CallRun ==
    /\ pc = "test"
    /\ pc' = "run"
    /\ call' = [call EXCEPT !.op = "run", !.fresh = FALSE]
    /\ UNCHANGED <<vm_vars, asm_vars, io_vars, straight_line>>

NextReg ==
    SetRegister \/ GetRegister \/ CallRun \/ RunStep \/ RunAbort \/ RunReturn

SpecReg == InitReg /\ [][NextReg]_vars

BranchMnemonics == {"jmp", "jeq", "jneq", "jla", "jle"}

BranchTargets == {Tok("0"), Tok("start"), Tok("r2")}

RegTokens == {Tok("r1"), Tok("IP"), Tok("rF"), Tok("rS")}

SourceTokens ==
    {Tok("r2"), Tok("-1"), Tok("0x10"), Tok("start"), Tok("buf"),
     Bracket("buf"), Bracket("0xFFFFFFFE"), Bracket("0")}

LegalInstrs ==
    {<<"nop", <<>>>>, <<"syscall", <<>>>>, <<"Syscall", <<>>>>,
     <<"nop", <<Tok("r1"), Tok("r2")>>>>}
    \cup {<<op, <<t>>>> : op \in BranchMnemonics, t \in BranchTargets}
    \cup {<<op, <<d, s>>>> : op \in {"mov", "add", "sub", "xor", "cmp"},
                             d \in RegTokens, s \in SourceTokens}
    \cup {<<"mov", <<d, s>>>> : d \in {Bracket("buf"), Bracket("0xFFFFFFFE")},
                                s \in {Tok("r1"), Tok("-1"), Tok("buf")}}

IllegalInstrs ==
    {<<"jmp", <<>>>>, <<"jmp", <<Bracket("buf")>>>>, <<"mov", <<Tok("r1")>>>>,
     <<"mov", <<Tok("1"), Tok("r1")>>>>,
     <<"mov", <<Bracket("buf"), Bracket("buf")>>>>,
     <<"add", <<Bracket("buf"), Tok("r1")>>>>,
     <<"cmp", <<Tok("1"), Tok("r1")>>>>, <<"mul", <<Tok("r1"), Tok("r2")>>>>,
     <<"mov", <<Tok("r1"), Tok("nowhere")>>>>,
     <<"jeq", <<Tok("0"), Tok("0")>>>>, <<"jle", <<Bracket("0")>>>>,
     <<"cmp", <<Bracket("buf"), Tok("r1")>>>>, <<"cmp", <<>>>>,
     <<"cmp", <<Tok("r1")>>>>, <<"mov", <<Tok("start"), Tok("r1")>>>>,
     <<"mov", <<Tok("r1"), Tok("r2"), Tok("r1")>>>>, <<"add", <<>>>>,
     <<"sub", <<Tok("1"), Tok("r1")>>>>, <<"sub", <<Tok("r1")>>>>,
     <<"xor", <<Bracket("buf"), Tok("r1")>>>>,
     <<"xor", <<Tok("r1"), Tok("r2"), Tok("r1")>>>>}

OneInstrSource(instr, labelled, with_data) ==
    <<MainHeader(1)>>
    \o (IF labelled THEN <<LabelLine(2, "start")>> ELSE <<>>)
    \o <<InstrLine(3, instr[1], instr[2])>>
    \o (IF with_data THEN <<DataHeader(5), DbLine(6, "buf", "4")>> ELSE <<>>)

\* lines numbered as getline counts them: from 1, with `gap` blank or
\* comment lines between the first line and the second
Numbered(ls, gap) ==
    [i \in 1 .. Len(ls) |->
        [ls[i] EXCEPT !.line_number = IF i = 1 THEN 1 ELSE i + gap]]

\* ls with the line l put in before its line at position p + 1
PutIn(ls, p, l) == SubSeq(ls, 1, p) \o <<l>> \o SubSeq(ls, p + 1, Len(ls))

\* programs of MaxBody instructions that name the labels `here` and
\* `there`, each declared before any of the instructions or after the
\* last one, with a four-byte buffer behind the code
MaxBody == 2
LabelUses ==
    {<<"nop", <<>>>>, <<"jmp", <<Tok("here")>>>>, <<"jeq", <<Tok("r2")>>>>,
     <<"mov", <<Tok("r1"), Bracket("here")>>>>,
     <<"mov", <<Bracket("buf"), Tok("there")>>>>}

BodyLines(body) == [i \in 1 .. Len(body) |-> InstrLine(0, body[i][1], body[i][2])]

LabelSource(body, p, q) ==
    Numbered(<<MainHeader(0)>>
             \o PutIn(PutIn(BodyLines(body), q, LabelLine(0, "there")),
                      p, LabelLine(0, "here"))
             \o <<DataHeader(0), DbLine(0, "buf", "4")>>, 0)

\* a label spelled like a register, named by a branch
RegisterLabelSource ==
    Numbered(<<MainHeader(0), InstrLine(0, "nop", <<>>), LabelLine(0, "r2"),
               InstrLine(0, "jmp", <<Tok("r2")>>)>>, 0)

LabelSources ==
    {LabelSource(body, p, q) :
        body \in (SeqsUpTo(LabelUses, MaxBody) \ SeqsUpTo(LabelUses, MaxBody - 1)),
        p \in 0 .. MaxBody, q \in 0 .. MaxBody}
    \cup {RegisterLabelSource}

\* sources that declare two or three buffers and load the address of the
\* second; the size texts are those whose 32-bit total stays below 2^16
DbNames == <<"a", "b", "c">>
DbSizeTexts == {"0", "2", "4", "-1"}
DbSizes ==
    {s \in SeqsUpTo(DbSizeTexts, 3) :
        /\ Len(s) >= 2
        /\ Hi(total_data_size([i \in 1 .. Len(s) |->
                                  <<DbNames[i], parse_number(s[i]).v>>])) = 0}

DataSource(sizes) ==
    Numbered(<<MainHeader(0), InstrLine(0, "mov", <<Tok("r1"), Tok("b")>>),
               DataHeader(0)>>
             \o [i \in 1 .. Len(sizes) |-> DbLine(0, DbNames[i], sizes[i])], 0)

DataSources == {DataSource(s) : s \in DbSizes}


\* mov r, v; mov r1, 0; syscall
ValueTexts == {"0", "1", "0x10", "-1", "0xFFFFFFFE"}
ExitSource(r, v) ==
    Numbered(<<MainHeader(0), InstrLine(0, "mov", <<Tok(r), Tok(v)>>),
               InstrLine(0, "mov", <<Tok("r1"), Tok("0")>>),
               InstrLine(0, "syscall", <<>>)>>, 0)
ExitSources == {ExitSource(r, v) : r \in {"r2", "r3", "r8"}, v \in ValueTexts}

\* mov [buf], v; mov r2, [buf]; with buf of 4 or 8 bytes, behind another
\* buffer or not
StoreLoadSource(v, size_str, padded) ==
    Numbered(<<MainHeader(0),
               InstrLine(0, "mov", <<Bracket("buf"), Tok(v)>>),
               InstrLine(0, "mov", <<Tok("r2"), Bracket("buf")>>),
               DataHeader(0)>>
             \o (IF padded THEN <<DbLine(0, "a", "2")>> ELSE <<>>)
             \o <<DbLine(0, "buf", size_str)>>, 0)
StoreLoadSources ==
    {StoreLoadSource(v, s, p) :
        v \in ValueTexts, s \in {"4", "8"}, p \in BOOLEAN}

\* sources with one flaw each, in _main, in _data or before any section,
\* with and without a blank line after their first line
FaultyTexts ==
    {<<MainHeader(0), LabelLine(0, "L"), InstrLine(0, "nop", <<>>),
       LabelLine(0, "L"), InstrLine(0, "nop", <<>>)>>,
     <<MainHeader(0), InstrLine(0, "nop", <<>>), DataHeader(0),
       DbLine(0, "a", "4"), DbLine(0, "a", "2")>>,
     <<InstrLine(0, "nop", <<>>), MainHeader(0)>>,
     <<MainHeader(0), InstrLine(0, "nop", <<>>), DataHeader(0),
       InstrLine(0, "nop", <<>>)>>,
     <<MainHeader(0), InstrLine(0, "nop", <<>>), LabelLine(0, "")>>,
     <<MainHeader(0), DataHeader(0), DbLine(0, "a", "4"),
       MalformedDbLine(0, "b")>>,
     <<MainHeader(0), DataHeader(0), DbLine(0, "a", "xyz")>>,
     <<MainHeader(0), DataHeader(0), DbLine(0, "", "4")>>}

FaultySources == {Numbered(t, gap) : t \in FaultyTexts, gap \in {0, 1}}

\* one name declared as a code label and as a DB name, in either order
CrossSources ==
    {Numbered(<<MainHeader(0), LabelLine(0, "buf"), InstrLine(0, "nop", <<>>),
                DataHeader(0), DbLine(0, "buf", "4")>>, 0),
     Numbered(<<DataHeader(0), DbLine(0, "buf", "4"), MainHeader(0),
                LabelLine(0, "buf"), InstrLine(0, "nop", <<>>)>>, 0)}

\* sources without content, with sections that alternate, with content
\* before the first header, and with a line under the wrong header
SectionSources ==
    {Numbered(t, 0) :
        t \in {<<>>, <<MainHeader(0)>>, <<DataHeader(0)>>,
               <<DataHeader(0), MainHeader(0)>>,
               <<MainHeader(0), InstrLine(0, "nop", <<>>), DataHeader(0),
                 DbLine(0, "a", "4"), MainHeader(0), LabelLine(0, "end"),
                 InstrLine(0, "jmp", <<Tok("end")>>), DataHeader(0),
                 DbLine(0, "b", "2")>>,
               <<LabelLine(0, "start"), MainHeader(0)>>,
               <<DbLine(0, "a", "4"), DataHeader(0)>>,
               <<MainHeader(0), DbLine(0, "a", "4")>>,
               <<DataHeader(0), LabelLine(0, "start")>>}}

\* start: / mov r1, 1 / jmp start, behind up to two NOPs, with and without
\* a data section
LoopSource(nops, with_data) ==
    Numbered(<<MainHeader(0)>>
             \o [i \in 1 .. nops |-> InstrLine(0, "nop", <<>>)]
             \o <<LabelLine(0, "start"),
                  InstrLine(0, "mov", <<Tok("r1"), Tok("1")>>),
                  InstrLine(0, "jmp", <<Tok("start")>>)>>
             \o (IF with_data THEN <<DataHeader(0), DbLine(0, "buf", "4")>>
                 ELSE <<>>), 0)
LoopSources == {LoopSource(n, d) : n \in 0 .. 2, d \in BOOLEAN}

\* WRITE of no bytes from a buffer of no bytes, which lies where memory ends
EmptyWriteSource ==
    Numbered(<<MainHeader(0),
               InstrLine(0, "mov", <<Tok("r1"), Tok("1")>>),
               InstrLine(0, "mov", <<Tok("r3"), Tok("buf")>>),
               InstrLine(0, "syscall", <<>>),
               DataHeader(0), DbLine(0, "buf", "0")>>, 0)

\* a label and a DB name, each spelled like a number, like the other or
\* like neither, and one use of such a spelling as an immediate, as a
\* branch target and in brackets
SpelledNames == {"8", "both", "buf", "nowhere"}

PrioritySource(label, name, instr) ==
    Numbered(<<MainHeader(0), InstrLine(0, "nop", <<>>), LabelLine(0, label),
               InstrLine(0, instr[1], instr[2]),
               DataHeader(0), DbLine(0, "pad", "2"), DbLine(0, name, "4")>>, 0)

PrioritySources ==
    {PrioritySource(label, name, instr) :
        label \in {"8", "both"}, name \in {"8", "both", "buf"},
        instr \in {<<"mov", <<Tok("r1"), Tok(t)>>>> : t \in SpelledNames}
                  \cup {<<"mov", <<Bracket(t), Tok("r1")>>>> : t \in SpelledNames}
                  \cup {<<"jmp", <<Tok(t)>>>> : t \in SpelledNames}
                  \cup {<<"mov", <<Bracket("nowhere"), Tok("8")>>>>,
                        <<"mov", <<Bracket("both"), Tok("nowhere")>>>>}}

Sources ==
    {OneInstrSource(i, l, d) : i \in LegalInstrs \cup IllegalInstrs,
                               l \in BOOLEAN, d \in BOOLEAN}
    \cup LabelSources \cup DataSources \cup ExitSources \cup StoreLoadSources
    \cup FaultySources \cup CrossSources \cup SectionSources
    \cup LoopSources \cup {EmptyWriteSource} \cup PrioritySources

\* sources assembled into a module that an earlier call has filled: one
\* that assembles, two that fail in the first pass, one that fails in the
\* second
ReusedSources ==
    {Numbered(<<MainHeader(0), InstrLine(0, "nop", <<>>)>>, 0),
     Numbered(<<InstrLine(0, "nop", <<>>), MainHeader(0)>>, 0),
     Numbered(<<MainHeader(0), InstrLine(0, "nop", <<>>),
                InstrLine(0, "mul", <<Tok("r1"), Tok("r2")>>)>>, 0),
     Numbered(<<MainHeader(0), InstrLine(0, "nop", <<>>),
                InstrLine(0, "mov", <<Tok("r1"), Tok("nowhere")>>)>>, 0)}

InitAsm ==
    /\ NoMachine
    /\ \/ lines \in Sources /\ out_module = EmptyModule
       \/ lines \in ReusedSources /\ out_module = UsedModule
    /\ NoAssembly
    /\ error_message = NoError
    /\ file = NoFile
    /\ module = EmptyModule
    /\ pc = "first_pass"
    /\ call = NoCall
    /\ straight_line = TRUE

NextAsm ==
    \/ FirstPassLine
    \/ Layout
    \/ SecondPassLine
    \/ AssembleReturn
    \/ SaveBvm
    \/ LoadBvm
    \/ ConstructVM
    \/ RunStep
    \/ RunAbort
    \/ RunReturn

SpecAsm == InitAsm /\ [][NextAsm]_vars

-----------------------------------------------------------------------------
(* What a transition of the VM did, read from the state before it.         *)

StepTaken == steps' = steps + 1

FaultBits == {F_BAD_INSTR, F_IP_OOB, F_READ_OOB, F_WRITE_OOB}
AnyFault(flags) == \E bit \in FaultBits : HasFlag(flags, bit)

cur_ip == Lo(registers_[IP])
InCode(n) == Hi(registers_[IP]) = 0 /\ cur_ip + n <= code_size_bytes_
CurOp == memory_image_[cur_ip]
CurMode == memory_image_[cur_ip + 1]

-----------------------------------------------------------------------------
(* C1.  Original statement: in every reachable state, a fault bit          *)
(* (BAD_INSTR, IP_OOB, READ_OOB, WRITE_OOB) set in rF implies that the VM  *)
(* is Halted.                                                              *)
C1_FaultBitImpliesHalted == AnyFault(registers_[RF]) => ~is_running_

\* the instruction about to execute is MOV, ADD, SUB or XOR with the
\* register rF as its destination
WritesRF ==
    /\ InCode(3)
    /\ CurOp \in {OP_MOV, OP_ADD, OP_SUB, OP_XOR}
    /\ dst_type_of(CurMode) = OT_REG
    /\ memory_image_[cur_ip + 2] = RF

(* C1, amended.  A step that sets a fault bit which was clear before it    *)
(* leaves the VM Halted, unless the instruction is a MOV, ADD, SUB or XOR  *)
(* whose destination register is rF.                                       *)
C1_NewFaultHalts ==
    [][(/\ StepTaken
        /\ ~WritesRF
        /\ \E bit \in FaultBits : /\ ~HasFlag(registers_[RF], bit)
                                  /\ HasFlag(registers_[RF]', bit))
       => ~is_running_']_vars

\* a store outside memory has set WRITE_OOB and halted the VM
C1_Witness ==
    /\ ~is_running_
    /\ HasFlag(registers_[RF], F_WRITE_OOB)
    /\ trace # <<>> /\ trace[2] = OP_MOV
    /\ steps = 1

-----------------------------------------------------------------------------
-----------------------------------------------------------------------------
(* C3.  A branch with an IMM or REG target that completes: JMP is always   *)
(* taken, JEQ iff EQ, JNEQ iff not EQ, JLA iff GT, JLE iff LT or EQ; when  *)
(* taken TEST_TRUE is set and IP is the target (the immediate, or the      *)
(* content of the register when the operand is read); when not taken       *)
(* TEST_TRUE is cleared and IP is the offset of the byte after the branch. *)
BranchSize == IF src_type_of(CurMode) = OT_IMM THEN 6 ELSE 3

BranchTarget ==
    IF src_type_of(CurMode) = OT_IMM
    THEN read_u32_le(memory_image_, cur_ip + 2)
    ELSE IF memory_image_[cur_ip + 2] = IP
    THEN U32(cur_ip + BranchSize)
    ELSE registers_[memory_image_[cur_ip + 2]]

BranchTaken ==
    \/ CurOp = OP_JMP
    \/ CurOp = OP_JEQ /\ HasFlag(registers_[RF], F_EQ)
    \/ CurOp = OP_JNEQ /\ ~HasFlag(registers_[RF], F_EQ)
    \/ CurOp = OP_JLA /\ HasFlag(registers_[RF], F_GT)
    \/ CurOp = OP_JLE /\ (HasFlag(registers_[RF], F_LT)
                          \/ HasFlag(registers_[RF], F_EQ))

C3_BranchSemantics ==
    [][(/\ StepTaken
        /\ InCode(3)
        /\ CurOp \in {OP_JMP, OP_JEQ, OP_JNEQ, OP_JLA, OP_JLE}
        /\ src_type_of(CurMode) \in {OT_IMM, OT_REG}
        /\ is_running_')
       => IF BranchTaken
          THEN /\ HasFlag(registers_[RF]', F_TEST_TRUE)
               /\ registers_[IP]' = BranchTarget
          ELSE /\ ~HasFlag(registers_[RF]', F_TEST_TRUE)
               /\ registers_[IP]' = U32(cur_ip + BranchSize)]_vars

\* JLE was taken on EQ alone, to a target held in a register
C3_Witness ==
    /\ is_running_
    /\ trace # <<>> /\ trace[2] = OP_JLE
    /\ src_type_of(memory_image_[Lo(trace[1]) + 1]) = OT_REG
    /\ Lo(registers_[RF]) % 16 = F_EQ + F_TEST_TRUE
    /\ registers_[IP] = registers_[R2]

-----------------------------------------------------------------------------
(* C4.  In every reachable state rS is 0 or 1: every write to rS stores    *)
(* only bit 0 of the value computed.                                       *)
C4_RsIsOneBit == registers_[RS] \in {U32(0), U32(1)}

-----------------------------------------------------------------------------
(* C5.  A well-formed MOV [addr], src (src a register or an immediate)     *)
(* with addr + 4 > code_size + data_size halts the VM with WRITE_OOB set   *)
(* and leaves every byte of memory unchanged; a well-formed MOV reg,       *)
(* [addr] with such an addr halts the VM with READ_OOB set and writes no   *)
(* register: only IP (advanced past the instruction) and rF (READ_OOB      *)
(* added) differ.  addr + 4 is the mathematical sum, so addresses near     *)
(* 0xFFFFFFFF are out of bounds.                                           *)
AddrOutside(addr) ==
    \/ Hi(addr) > 0
    \/ Lo(addr) + 4 > code_size_bytes_ + data_size_bytes_

MovStore ==
    /\ InCode(3)
    /\ CurOp = OP_MOV
    /\ dst_type_of(CurMode) = OT_MEM
    /\ \/ src_type_of(CurMode) = OT_REG /\ InCode(7)
          /\ memory_image_[cur_ip + 6] < REG_COUNT
       \/ src_type_of(CurMode) = OT_IMM /\ InCode(10)

MovLoad ==
    /\ InCode(7)
    /\ CurOp = OP_MOV
    /\ dst_type_of(CurMode) = OT_REG
    /\ src_type_of(CurMode) = OT_MEM
    /\ memory_image_[cur_ip + 2] < REG_COUNT

C5_MovOutOfBounds ==
    [][/\ (StepTaken /\ MovStore
              /\ AddrOutside(read_u32_le(memory_image_, cur_ip + 2)))
          => /\ ~is_running_'
             /\ HasFlag(registers_[RF]', F_WRITE_OOB)
             /\ memory_image_' = memory_image_
       /\ (StepTaken /\ MovLoad
              /\ AddrOutside(read_u32_le(memory_image_, cur_ip + 3)))
          => /\ ~is_running_'
             /\ HasFlag(registers_[RF]', F_READ_OOB)
             /\ registers_' =
                  [registers_ EXCEPT
                     ![IP] = U32(cur_ip + 7),
                     ![RF] = Or32(registers_[RF], U32(F_READ_OOB))]]_vars

\* a load from 0xFFFFFFFE has halted the VM with READ_OOB
C5_Witness ==
    /\ ~is_running_
    /\ HasFlag(registers_[RF], F_READ_OOB)
    /\ trace # <<>> /\ trace[2] = OP_MOV
    /\ src_type_of(memory_image_[Lo(trace[1]) + 1]) = OT_MEM
    /\ read_u32_le(memory_image_, Lo(trace[1]) + 3) = HighAddr

-----------------------------------------------------------------------------
(* C6.  A step begun with IP >= code_size sets IP_OOB, halts the VM and    *)
(* does nothing else: no other register, no byte of memory, no stream and  *)
(* no trace line changes.  A module with an empty code region halts so on  *)
(* its first step.                                                         *)
C6_IpOutsideCode ==
    [][(StepTaken /\ GeSize(registers_[IP], code_size_bytes_))
       => /\ ~is_running_'
          /\ registers_' =
               [registers_ EXCEPT
                  ![RF] = Or32(registers_[RF], U32(F_IP_OOB))]
          /\ UNCHANGED <<memory_image_, cin, cout, cerr, trace>>]_vars

\* the first step of an empty code region has halted with IP_OOB
C6_Witness ==
    /\ code_size_bytes_ = 0
    /\ steps = 1
    /\ ~is_running_
    /\ registers_[RF] = U32(F_IP_OOB)

-----------------------------------------------------------------------------
(* C9.  Original statement: the step that halts the VM is a clean exit     *)
(* (a SYSCALL executed with r1 = 0) if and only if none of BAD_INSTR,      *)
(* IP_OOB, READ_OOB, WRITE_OOB is set in rF once it has halted.            *)
ExitStep ==
    /\ InCode(1)
    /\ CurOp = OP_SYSCALL
    /\ registers_[R1] = U32(SC_EXIT)

C9_CleanExitIffNoFault ==
    [][(StepTaken /\ ~is_running_')
       => (ExitStep <=> ~AnyFault(registers_[RF]'))]_vars

-----------------------------------------------------------------------------
(* C10.  The VM is Running after construction, and Halted is absorbing:    *)
(* from a Halted state no register, no byte of memory and no stream        *)
(* changes, no step is executed and the VM stays Halted.                   *)
C10_HaltedAbsorbing ==
    /\ is_running_ = TRUE
    /\ [][~is_running_
          => /\ ~is_running_'
             /\ UNCHANGED <<registers_, memory_image_, cin, cout, cerr,
                            trace, steps>>]_vars

\* run() has returned from a VM halted by a fault
C10_Witness ==
    /\ pc = "returned"
    /\ ~is_running_
    /\ HasFlag(registers_[RF], F_BAD_INSTR)

-----------------------------------------------------------------------------
(* C7.  Original statement: for the one instruction of an assembled        *)
(* source, the bytes emitted by pass two number what pass one added to     *)
(* code_pc, and, once the VM has executed the instruction without taking   *)
(* a branch, IP has advanced by that number.                               *)
InstrLines == {i \in 1 .. Len(lines) : lines[i].k = "instr"}
TheInstr == lines[CHOOSE i \in InstrLines : TRUE]
Assembled == pc \in {"assembled", "save_failed", "saved", "load_failed",
                     "loaded", "run", "returned", "aborted"}

FirstStepDone == Cardinality(InstrLines) = 1 /\ steps = 1

TookBranch ==
    /\ parse_op(TheInstr.op_token) \in Branches
    /\ HasFlag(registers_[RF], F_TEST_TRUE)

IpIsDestination ==
    /\ parse_op(TheInstr.op_token) \in {OP_MOV, OP_ADD, OP_SUB, OP_XOR}
    /\ is_register_token(TheInstr.operands[1])
    /\ register_of(TheInstr.operands[1]) = IP

C7_EncodingClosure ==
    /\ (Assembled /\ Cardinality(InstrLines) = 1)
           => Len(out_module.code_section) = code_pc
    /\ (FirstStepDone /\ ~TookBranch) => registers_[IP] = U32(code_pc)

(* C7, amended.  The same, for every instruction that is not a MOV, ADD,   *)
(* SUB or XOR whose destination register is IP: such an instruction is     *)
(* emitted with the size pass one counted, but leaves in IP the value it   *)
(* computed.                                                               *)
C7_EncodingClosureUnlessIpWritten ==
    /\ (Assembled /\ Cardinality(InstrLines) = 1)
           => Len(out_module.code_section) = code_pc
    /\ (FirstStepDone /\ ~TookBranch /\ ~IpIsDestination)
           => registers_[IP] = U32(code_pc)

\* mov [buf], -1 was counted, emitted and executed as ten bytes
C7_Witness ==
    /\ FirstStepDone
    /\ parse_op(TheInstr.op_token) = OP_MOV
    /\ code_pc = 10
    /\ Len(out_module.code_section) = 10
    /\ registers_[IP] = U32(10)
    /\ is_running_

-----------------------------------------------------------------------------
(* C8.  Container round trip: for every module m, when the file could be   *)
(* opened, took every byte save_bvm wrote and could be opened again,       *)
(* load_bvm succeeds and yields a module with the entry_point, the code    *)
(* bytes and the data bytes of m, whatever the module it fills held.       *)
WrittenInFull ==
    /\ file.exists
    /\ Len(file.bytes) = 16 + Len(out_module.code_section)
                            + Len(out_module.data_section)

C8_RoundTrip ==
    (/\ pc \in {"loaded", "load_failed"}
     /\ WrittenInFull
     /\ error_message.msg # "cannot open program file")
    => /\ pc = "loaded"
       /\ module.entry_point = out_module.entry_point
       /\ module.code_section = out_module.code_section
       /\ module.data_section = out_module.data_section

\* a module with code, data and a non-zero entry point came back, into a
\* module that held other bytes before
C8_Witness ==
    /\ pc = "loaded"
    /\ module = out_module
    /\ module.entry_point = <<258, 772>>
    /\ Len(module.code_section) = MaxCode
    /\ module.data_section = <<255>>

-----------------------------------------------------------------------------
(* C11.  A CMP that completes compares its operands as signed 32-bit       *)
(* values when bit 0 of rS is 1 and as unsigned values when it is 0: the   *)
(* flag it leaves is EQ when they are equal, GT when lhs is the greater in *)
(* that order, LT otherwise.  With lhs = 0xFFFFFFFF and rhs = 1 it leaves  *)
(* LT under rS = 1 (a following JLE is taken) and GT under rS = 0.         *)
CmpLhs == registers_[memory_image_[cur_ip + 2]]

CmpRhs ==
    IF src_type_of(CurMode) = OT_REG
    THEN registers_[memory_image_[cur_ip + 3]]
    ELSE IF src_type_of(CurMode) = OT_IMM
    THEN read_u32_le(memory_image_, cur_ip + 3)
    ELSE read_u32_le(memory_image_,
                     Lo(read_u32_le(memory_image_, cur_ip + 3)))

\* the order of two's complement: the order of the values with the sign
\* bit inverted
Biased(a) == <<(Hi(a) + (Half \div 2)) % Half, Lo(a)>>
SignedLess(a, b) == Lt32(Biased(a), Biased(b))

OrderedFlag(lhs, rhs, signed_order) ==
    IF lhs = rhs THEN F_EQ
    ELSE IF (IF signed_order THEN SignedLess(rhs, lhs) ELSE Lt32(rhs, lhs))
    THEN F_GT
    ELSE F_LT

C11_CmpSignedness ==
    [][(/\ StepTaken
        /\ InCode(4)
        /\ CurOp = OP_CMP
        /\ src_type_of(CurMode) \in {OT_REG, OT_IMM, OT_MEM}
        /\ is_running_')
       => Lo(registers_[RF]') % 8 =
              OrderedFlag(CmpLhs, CmpRhs, Lo(registers_[RS]) % 2 = 1)]_vars

\* under rS = 1 the comparison of 0xFFFFFFFF with 1 has left LT, and the
\* JLE that follows it has been taken
C11_Witness ==
    /\ is_running_
    /\ registers_[RS] = U32(1)
    /\ registers_[R1] = Max32
    /\ HasFlag(registers_[RF], F_LT)
    /\ HasFlag(registers_[RF], F_TEST_TRUE)
    /\ trace # <<>> /\ trace[2] = OP_JLE
    /\ registers_[IP] = U32(code_size_bytes_ - 1)

-----------------------------------------------------------------------------
(* C12.  ADD, SUB and XOR with a register destination and a readable REG,  *)
(* IMM or [mem] source store (lhs op rhs) mod 2^32 in the destination, lhs *)
(* being the destination's content when the result is written (for IP,    *)
(* the offset of the next instruction); the instruction leaves the VM      *)
(* Running, and leaves rF alone unless rF is the destination.  ADD r, 1    *)
(* with r = 0xFFFFFFFF leaves 0; SUB r, 1 with r = 0 leaves 0xFFFFFFFF.    *)
AluSize == IF src_type_of(CurMode) = OT_REG THEN 4 ELSE 7
AluDst == memory_image_[cur_ip + 2]
AluSrcAddr == read_u32_le(memory_image_, cur_ip + 3)

AluReadable ==
    /\ InCode(4) /\ InCode(AluSize)
    /\ dst_type_of(CurMode) = OT_REG
    /\ AluDst < REG_COUNT
    /\ \/ /\ src_type_of(CurMode) = OT_REG
          /\ memory_image_[cur_ip + 3] < REG_COUNT
          /\ memory_image_[cur_ip + 3] # IP
       \/ src_type_of(CurMode) = OT_IMM
       \/ /\ src_type_of(CurMode) = OT_MEM
          /\ Hi(AluSrcAddr) = 0
          /\ Lo(AluSrcAddr) + 4 <= code_size_bytes_ + data_size_bytes_

AluLhs == IF AluDst = IP THEN U32(cur_ip + AluSize) ELSE registers_[AluDst]

\* two 32-bit words as numbers in base 2^16: the digits of their sum and
\* of their difference, the carry or borrow out of the high digit dropped
SumMod(a, b) ==
    <<(Hi(a) + Hi(b) + ((Lo(a) + Lo(b)) \div Half)) % Half,
      (Lo(a) + Lo(b)) % Half>>
DiffMod(a, b) ==
    <<(Hi(a) + Half - Hi(b) - (IF Lo(a) < Lo(b) THEN 1 ELSE 0)) % Half,
      (Lo(a) + Half - Lo(b)) % Half>>

RECURSIVE XorBits(_, _, _)
XorBits(a, b, n) ==
    IF n = 0 THEN 0
    ELSE ((a + b) % 2) + 2 * XorBits(a \div 2, b \div 2, n - 1)

Expected(opcode, lhs, rhs) ==
    IF opcode = OP_ADD THEN SumMod(lhs, rhs)
    ELSE IF opcode = OP_SUB THEN DiffMod(lhs, rhs)
    ELSE <<XorBits(Hi(lhs), Hi(rhs), 16), XorBits(Lo(lhs), Lo(rhs), 16)>>

C12_AluWraps ==
    [][(/\ StepTaken
        /\ InCode(1)
        /\ CurOp \in {OP_ADD, OP_SUB, OP_XOR}
        /\ AluReadable)
       => /\ is_running_'
          /\ registers_'[AluDst] = Expected(CurOp, AluLhs, CmpRhs)
          /\ AluDst # RF => registers_[RF]' = registers_[RF]]_vars

\* `mov r1, 0xFFFFFFFF` then `add r1, 1`: r1 is 0, the VM runs on and no
\* flag is set
C12_Witness ==
    /\ is_running_
    /\ steps = 2
    /\ memory_image_[0] = OP_MOV
    /\ read_u32_le(memory_image_, 3) = Max32
    /\ trace = <<U32(7), OP_ADD>>
    /\ read_u32_le(memory_image_, 10) = U32(1)
    /\ registers_[R1] = U32(0)
    /\ registers_[RF] = U32(0)

-----------------------------------------------------------------------------
(* C13.  Original statement: in an assembled source every code label is    *)
(* bound to the sum of the encoded sizes of the instructions that precede  *)
(* it in _main (the code size for a label after the last instruction), and *)
(* an operand naming a label is encoded as that offset, whether the label  *)
(* is declared before or after the use.                                    *)
OperandWidth(tok) == IF is_register_token(tok) THEN 1 ELSE 4

InstrSize(line) ==
    IF parse_op(line.op_token) \in {OP_NOP, OP_SYSCALL} THEN 1
    ELSE IF Len(line.operands) = 1 THEN 2 + OperandWidth(line.operands[1])
    ELSE 2 + OperandWidth(line.operands[1]) + OperandWidth(line.operands[2])

\* the encoded sizes of the instructions among the first n lines
RECURSIVE SizeBefore(_)
SizeBefore(n) ==
    IF n = 0 THEN 0
    ELSE SizeBefore(n - 1)
         + (IF lines[n].k = "instr" THEN InstrSize(lines[n]) ELSE 0)

LabelIndexes == {i \in 1 .. Len(lines) : lines[i].k = "label"}
Declares(i, name) == i \in LabelIndexes /\ lines[i].name = name

LabelsBound ==
    \A i \in LabelIndexes :
        /\ lines[i].name \in DOMAIN code_symbols
        /\ code_symbols[lines[i].name] = U32(SizeBefore(i))
        /\ (\A j \in InstrLines : j < i)
               => code_symbols[lines[i].name]
                      = U32(Len(out_module.code_section))

\* the offset, within the code, of operand p of the instruction on line i
OperandOffset(i, p) ==
    SizeBefore(i - 1) + 2
    + (IF p = 2 THEN OperandWidth(lines[i].operands[1]) ELSE 0)

\* the four bytes at an offset, -1 standing for a byte that is not there
BytesAt(bytes, off) ==
    [k \in 1 .. 4 |-> IF off + k <= Len(bytes) THEN bytes[off + k] ELSE -1]

EncodedAsOffset(i, p, l) ==
    BytesAt(out_module.code_section, OperandOffset(i, p))
        = le32(U32(SizeBefore(l)))

C13_LabelsResolved ==
    Assembled =>
        /\ LabelsBound
        /\ \A i \in InstrLines : \A p \in 1 .. Len(lines[i].operands) :
               \A l \in LabelIndexes :
                   Declares(l, lines[i].operands[p].text)
                       => EncodedAsOffset(i, p, l)

(* C13, amended.  The same, for an operand that is neither a register name *)
(* nor a numeric literal: a token that spells a register is encoded as     *)
(* that register even when a label of the same spelling is declared.       *)
C13_LabelsResolvedUnlessRegister ==
    Assembled =>
        /\ LabelsBound
        /\ \A i \in InstrLines : \A p \in 1 .. Len(lines[i].operands) :
               \A l \in LabelIndexes :
                   (/\ Declares(l, lines[i].operands[p].text)
                    /\ ~is_register_token(lines[i].operands[p])
                    /\ ~parse_number(lines[i].operands[p].text).ok)
                       => EncodedAsOffset(i, p, l)

\* `jmp here` precedes the declaration of `here`, and `there` is declared
\* after the last instruction: both are bound and the jump is encoded
C13_Witness ==
    /\ pc = "assembled"
    /\ \E i \in InstrLines : \E l \in LabelIndexes :
           /\ i < l
           /\ lines[i].operands = <<Tok("here")>>
           /\ Declares(l, "here")
           /\ code_symbols["here"] # U32(0)
           /\ EncodedAsOffset(i, 1, l)
    /\ \E l \in LabelIndexes :
           /\ Declares(l, "there")
           /\ \A j \in InstrLines : j < l
           /\ code_symbols["there"] = U32(Len(out_module.code_section))

-----------------------------------------------------------------------------
(* C14.  In every assembled module the k-th declared DB name is bound to   *)
(* the code size plus the sum of the sizes of the DB declarations before   *)
(* it, the data section is as long as the sum of all declared sizes, and   *)
(* every data byte is 0.                                                   *)
DbIndexes == {i \in 1 .. Len(lines) : lines[i].k = "db"}
DbSize(i) == parse_number(lines[i].operands[1].text).v

\* a sum of 32-bit words that is not reduced: the number of times it
\* passed 2^32, and the rest
AddExact(e, w) ==
    <<e[1] + (IF Lt32(Add32(e[2], w), w) THEN 1 ELSE 0), Add32(e[2], w)>>

\* the sizes declared on the first n lines, summed
RECURSIVE DeclaredBefore(_)
DeclaredBefore(n) ==
    IF n = 0 THEN <<0, U32(0)>>
    ELSE IF n \in DbIndexes
    THEN AddExact(DeclaredBefore(n - 1), DbSize(n))
    ELSE DeclaredBefore(n - 1)

CodeSize == U32(Len(out_module.code_section))

C14_DataLayout ==
    Assembled =>
        /\ \A i \in DbIndexes :
               /\ lines[i].name \in DOMAIN data_symbols
               /\ <<0, data_symbols[lines[i].name]>>
                      = AddExact(DeclaredBefore(i - 1), CodeSize)
        /\ DeclaredBefore(Len(lines))
               = <<0, U32(Len(out_module.data_section))>>
        /\ \A k \in 1 .. Len(out_module.data_section) :
               out_module.data_section[k] = 0

\* C14 restricted to the sources whose declared sizes, added to the code
\* size, stay below 2^32
C14_DataLayoutWithoutWrap ==
    AddExact(DeclaredBefore(Len(lines)), CodeSize)[1] = 0 => C14_DataLayout

\* three buffers of 2, 4 and 2 bytes behind 7 bytes of code
C14_LaidOut ==
    /\ pc = "assembled"
    /\ Cardinality(DbIndexes) = 3
    /\ data_symbols = ("a" :> U32(7)) @@ ("b" :> U32(9)) @@ ("c" :> U32(13))
    /\ Len(out_module.data_section) = 8

-----------------------------------------------------------------------------
(* C15.  The program `mov r, v`, `mov r1, 0`, `syscall`, with r one of     *)
(* r2..r8 and v a 32-bit value, assembled, saved, loaded and run: the VM   *)
(* runs three steps, the third halts it through the EXIT syscall, r holds  *)
(* v and no fault flag is set in rF.                                       *)
IsExitProgram ==
    /\ Len(lines) = 4
    /\ lines[2].op_token = "mov" /\ Len(lines[2].operands) = 2
    /\ is_register_token(lines[2].operands[1])
    /\ register_of(lines[2].operands[1]) \in (R2 .. R8)
    /\ parse_number(lines[2].operands[2].text).ok
    /\ lines[3].op_token = "mov"
    /\ lines[3].operands = <<Tok("r1"), Tok("0")>>
    /\ lines[4].op_token = "syscall"

C15_MovThenExit ==
    (IsExitProgram /\ pc \in {"run", "returned"}) =>
        /\ is_running_ <=> steps < 3
        /\ steps = 3 =>
               /\ trace = <<U32(14), OP_SYSCALL>>
               /\ registers_[R1] = U32(SC_EXIT)
               /\ registers_[register_of(lines[2].operands[1])]
                      = parse_number(lines[2].operands[2].text).v
               /\ ~AnyFault(registers_[RF])

\* `mov r3, 0xFFFFFFFE` has run to its clean exit
C15_Witness ==
    /\ IsExitProgram
    /\ pc = "returned"
    /\ lines[2].operands = <<Tok("r3"), Tok("0xFFFFFFFE")>>
    /\ registers_[R3] = <<Half - 1, Half - 2>>
    /\ registers_[RF] = U32(0)

-----------------------------------------------------------------------------
(* C16.  The program `mov [buf], v`, `mov r2, [buf]`, with buf declared    *)
(* with 4 bytes or more: the store changes exactly the four bytes at the   *)
(* address of buf, which become v least significant byte first, and the    *)
(* load that follows leaves r2 = v; neither faults.                        *)
IsStoreLoadProgram ==
    /\ Len(lines) >= 5
    /\ lines[2].op_token = "mov" /\ Len(lines[2].operands) = 2
    /\ lines[2].operands[1] = Bracket("buf")
    /\ parse_number(lines[2].operands[2].text).ok
    /\ lines[3].op_token = "mov"
    /\ lines[3].operands = <<Tok("r2"), Bracket("buf")>>

StoredValue == parse_number(lines[2].operands[2].text).v
BufAddr == Lo(data_symbols["buf"])

\* the image the VM was constructed with, but for the four bytes of v
ImageWithStore ==
    [k \in 0 .. (Len(module.code_section) + Len(module.data_section) - 1) |->
        IF k < Len(module.code_section) THEN module.code_section[k + 1]
        ELSE IF k = BufAddr THEN Lo(StoredValue) % Byte
        ELSE IF k = BufAddr + 1 THEN Lo(StoredValue) \div Byte
        ELSE IF k = BufAddr + 2 THEN Hi(StoredValue) % Byte
        ELSE IF k = BufAddr + 3 THEN Hi(StoredValue) \div Byte
        ELSE 0]

C16_StoreThenLoad ==
    (IsStoreLoadProgram /\ pc = "run" /\ steps \in {1, 2}) =>
        /\ is_running_
        /\ ~AnyFault(registers_[RF])
        /\ memory_image_ = ImageWithStore
        /\ steps = 2 => registers_[R2] = StoredValue

\* 0x10 went through a buffer that lies two bytes into the data region
C16_Witness ==
    /\ IsStoreLoadProgram
    /\ pc = "run" /\ steps = 2
    /\ StoredValue = U32(16)
    /\ BufAddr = Len(module.code_section) + 2
    /\ registers_[R2] = U32(16)
    /\ memory_image_[BufAddr] = 16

-----------------------------------------------------------------------------
(* C17.  A source that declares the same code label twice, or the same DB  *)
(* name twice, does not assemble; for a duplicate label the error carries  *)
(* the label and the line number of its second declaration (line 4 for     *)
(* `_main:` / `L:` / `nop` / `L:` / `nop`).                                *)
Redeclares(j) ==
    \E i \in 1 .. (j - 1) : /\ lines[i].k = lines[j].k
                            /\ lines[i].name = lines[j].name
SecondLabels == {j \in LabelIndexes : Redeclares(j)}
SecondDbs == {j \in DbIndexes : Redeclares(j)}
First(S) == CHOOSE j \in S : \A k \in S : j <= k

C17_DuplicatesRejected ==
    /\ (SecondLabels # {} \/ SecondDbs # {})
           => /\ pc \in {"first_pass", "asm_failed"}
              /\ out_module = EmptyModule
    /\ (SecondLabels # {} /\ pc = "asm_failed")
           => error_message
                  = Err("duplicate label", lines[First(SecondLabels)].name,
                        lines[First(SecondLabels)].line_number)
    /\ (SecondDbs # {} /\ pc = "asm_failed")
           => /\ error_message.msg = "duplicate DB name"
              /\ error_message.name = lines[First(SecondDbs)].name

\* the example: the second `L:` is on line 4
C17_Witness ==
    /\ pc = "asm_failed"
    /\ Len(lines) = 5
    /\ lines[4] = LabelLine(4, "L")
    /\ error_message = Err("duplicate label", "L", 4)

-----------------------------------------------------------------------------
(* C18.  Every failure of assemble_string leaves an error message that     *)
(* contains the line number of the line it failed on.                      *)
C18_ErrorsCarryLine ==
    pc = "asm_failed"
        => error_message.line = lines[line_index].line_number

\* C18 for every failure but the duplicate DB name
C18_ErrorsCarryLineUnlessDuplicateDb ==
    error_message.msg # "duplicate DB name" => C18_ErrorsCarryLine

\* a failure of the second pass carries its line: the unknown symbol
C18_LineCarried ==
    /\ pc = "asm_failed"
    /\ error_message = Err("unknown symbol", "nowhere", 3)

-----------------------------------------------------------------------------
(* C19.  A source does not assemble, and no module is handed out, when it  *)
(* holds a branch that does not have exactly one operand or whose operand  *)
(* is [mem], a CMP whose first operand is not a register, a MOV whose      *)
(* destination is an immediate, a MOV [mem],[mem], an ADD, SUB or XOR      *)
(* whose destination is not a register, or a MOV, ADD, SUB, XOR or CMP     *)
(* that does not have exactly two operands.                                *)
IsReg(tok) == operand_type_of(tok) = OT_REG
IsMem(tok) == operand_type_of(tok) = OT_MEM
IsImm(tok) == operand_type_of(tok) = OT_IMM

BadShape(line) ==
    LET op == parse_op(line.op_token)
        n == Len(line.operands)
    IN  \/ op \in Branches /\ (n # 1 \/ IsMem(line.operands[1]))
        \/ op \in {OP_MOV, OP_ADD, OP_SUB, OP_XOR, OP_CMP} /\ n # 2
        \/ /\ op \in {OP_MOV, OP_ADD, OP_SUB, OP_XOR, OP_CMP} /\ n = 2
           /\ \/ op = OP_CMP /\ ~IsReg(line.operands[1])
              \/ op = OP_MOV /\ IsImm(line.operands[1])
              \/ op = OP_MOV /\ IsMem(line.operands[1])
                             /\ IsMem(line.operands[2])
              \/ op \in {OP_ADD, OP_SUB, OP_XOR} /\ ~IsReg(line.operands[1])

BadShapeLines == {i \in InstrLines : BadShape(lines[i])}

C19_BadShapesRejected ==
    BadShapeLines # {}
        => /\ pc \in {"first_pass", "asm_failed"}
           /\ out_module = EmptyModule
           /\ pc = "asm_failed" =>
                  /\ line_index = First(BadShapeLines)
                  /\ error_message.line = lines[line_index].line_number

\* `mov [buf], [buf]` was turned down on its line
C19_Witness ==
    /\ pc = "asm_failed"
    /\ lines[line_index].operands = <<Bracket("buf"), Bracket("buf")>>
    /\ error_message = Err("mov [mem],[mem] not allowed", "", 3)
    /\ out_module = EmptyModule

-----------------------------------------------------------------------------
(* C20.  A source with a NOP or SYSCALL line that carries one or more      *)
(* operands does not assemble.                                             *)
BareWithOperands ==
    {i \in InstrLines : /\ parse_op(lines[i].op_token) \in {OP_NOP, OP_SYSCALL}
                        /\ lines[i].operands # <<>>}

C20_BareTakesNoOperands ==
    BareWithOperands # {} => pc \in {"first_pass", "asm_failed"}

-----------------------------------------------------------------------------
(* C21.  load_bvm on a file that could be opened reports bad magic when    *)
(* the file has fewer than 4 bytes or its first 4 are not the magic;       *)
(* otherwise truncated header when fewer than 12 bytes follow; otherwise   *)
(* truncated payload when fewer bytes follow the header than the two sizes *)
(* in it add up to; otherwise it succeeds with the entry point, code and   *)
(* data the file holds, and ignores the bytes after them.                  *)
FileByte(k) == file.bytes[k]
HasMagic ==
    /\ Len(file.bytes) >= 4
    /\ <<FileByte(1), FileByte(2), FileByte(3), FileByte(4)>> = <<66, 86, 77, 0>>

\* a header word of the file, of which the files here use 17 bits at most
Word(k) ==
    FileByte(k) + Byte * FileByte(k + 1) + Byte * Byte * FileByte(k + 2)
DeclaredCode == Word(9)
DeclaredData == Word(13)

Verdict ==
    IF ~HasMagic THEN "bad magic"
    ELSE IF Len(file.bytes) - 4 < 12 THEN "truncated header"
    ELSE IF Len(file.bytes) - 16 < DeclaredCode + DeclaredData
    THEN "truncated payload"
    ELSE ""

Opened == pc \in {"loaded", "load_failed"}
              /\ error_message.msg # "cannot open program file"

C21_LoadVerdicts ==
    Opened =>
        /\ error_message.msg = Verdict
        /\ pc = "loaded" <=> Verdict = ""
        /\ pc = "loaded" =>
               /\ module.entry_point
                      = <<FileByte(7) + Byte * FileByte(8),
                          FileByte(5) + Byte * FileByte(6)>>
               /\ module.code_section
                      = [k \in 1 .. DeclaredCode |-> FileByte(16 + k)]
               /\ module.data_section
                      = [k \in 1 .. DeclaredData |->
                            FileByte(16 + DeclaredCode + k)]

\* a file with a byte after its declared payload has been loaded
C21_Witness ==
    /\ pc = "loaded"
    /\ Len(file.bytes) = 16 + DeclaredCode + DeclaredData + 1
    /\ DeclaredCode = 2 /\ DeclaredData = 1
    /\ module.code_section = <<1, 2>> /\ module.data_section = <<3>>

-----------------------------------------------------------------------------
(* C22.  save_bvm returns success only when every byte of the layout       *)
(* (magic, three header words, code bytes, data bytes) went into the file. *)
C22_SuccessMeansWritten == pc = "saved" => WrittenInFull

-----------------------------------------------------------------------------
(* C24.  A load_bvm that fails, whatever the reason, leaves the caller's   *)
(* module with the entry point, code and data it had before the call.      *)
C24_FailedLoadKeepsModule ==
    [][pc' = "load_failed" => module' = module]_vars

\* C24 for the failures that precede the payload
C24_EarlyFailureKeepsModule ==
    [][(pc' = "load_failed" /\ error_message'.msg # "truncated payload")
           => module' = module]_vars

-----------------------------------------------------------------------------
(* C23.  While assemble_string is in its first or second pass, and when it *)
(* fails in either, the caller's out_module keeps its entry_point,         *)
(* code_section and data_section; a failure leaves an error message.       *)
C23_FailureKeepsOutModule ==
    [][(pc \in {"first_pass", "second_pass"} /\ pc' # "assembled")
           => /\ out_module' = out_module
              /\ pc' = "asm_failed" => error_message'.msg # ""]_vars

\* the second pass has failed after emitting a NOP and the first bytes of a
\* MOV, and the module filled by an earlier call is intact
C23_Witness ==
    /\ pc = "asm_failed"
    /\ error_message = Err("unknown symbol", "nowhere", 3)
    /\ code_buffer = <<OP_NOP, OP_MOV, OT_REG * 16 + OT_IMM, R1>>
    /\ out_module = UsedModule

-----------------------------------------------------------------------------
(* C25.  In an assembled source no name is both a code label and a DB      *)
(* name: a source that declares one name in both namespaces is rejected,   *)
(* whichever declaration comes first.                                      *)
C25_NamespacesDisjoint ==
    Assembled => (DOMAIN code_symbols) \cap (DOMAIN data_symbols) = {}

-----------------------------------------------------------------------------
(* C26.  A line other than `_main:` and `_data:` that comes before the     *)
(* first header makes the assembly fail, on that line; every later line is *)
(* taken by the section of the most recent header, so that a source        *)
(* assembles only when its instructions and labels follow `_main:` and its *)
(* DB declarations follow `_data:`; a source without lines assembles to a  *)
(* module with entry_point 0, no code and no data.                         *)
IsHeader(i) == lines[i].k \in {"_main:", "_data:"}

\* the section in force after the first n lines
RECURSIVE SectionAfter(_)
SectionAfter(n) ==
    IF n = 0 THEN "NONE"
    ELSE IF lines[n].k = "_main:" THEN "MAIN"
    ELSE IF lines[n].k = "_data:" THEN "DATA"
    ELSE SectionAfter(n - 1)

Unsectioned ==
    {i \in 1 .. Len(lines) : ~IsHeader(i) /\ SectionAfter(i) = "NONE"}

C26_Alternating ==
    /\ pc = "assembled"
    /\ Len(lines) = 9
    /\ out_module.code_section = <<OP_NOP, OP_JMP, OT_IMM, 1, 0, 0, 0>>
    /\ Len(out_module.data_section) = 6

-----------------------------------------------------------------------------
(* C27.  An instruction with a register index of REG_COUNT or more in a    *)
(* register slot (the destination or source of MOV, ADD, SUB, XOR, CMP,    *)
(* the target of a branch) sets BAD_INSTR and halts the VM; it changes no  *)
(* register other than IP and rF and no byte of memory.                    *)
IsBadIndex(k) == InCode(k + 1) /\ memory_image_[cur_ip + k] >= REG_COUNT

TwoOperandOp == CurOp \in {OP_MOV, OP_ADD, OP_SUB, OP_XOR, OP_CMP}

BadDestinationSlot ==
    TwoOperandOp /\ dst_type_of(CurMode) = OT_REG /\ IsBadIndex(2)

BadSourceSlot ==
    /\ src_type_of(CurMode) = OT_REG
    /\ \/ CurOp \in Branches /\ IsBadIndex(2)
       \/ /\ TwoOperandOp /\ dst_type_of(CurMode) = OT_REG
          /\ ~IsBadIndex(2) /\ IsBadIndex(3)
       \/ CurOp = OP_MOV /\ dst_type_of(CurMode) = OT_MEM /\ IsBadIndex(6)

C27_BadRegisterIndex ==
    [][(/\ StepTaken
        /\ InCode(2)
        /\ BadDestinationSlot \/ BadSourceSlot)
       => /\ ~is_running_'
          /\ HasFlag(registers_[RF]', F_BAD_INSTR)
          /\ \A r \in 0 .. (REG_COUNT - 1) :
                 r \notin {IP, RF} => registers_'[r] = registers_[r]
          /\ memory_image_' = memory_image_]_vars

\* `add r1, <register 11>` has halted the VM with r1 as it was
C27_Witness ==
    /\ ~is_running_
    /\ trace # <<>> /\ trace[2] = OP_ADD
    /\ memory_image_[Lo(trace[1]) + 3] = BadReg
    /\ registers_[R1] = Max32
    /\ HasFlag(registers_[RF], F_BAD_INSTR)

-----------------------------------------------------------------------------
(* C28.  An opcode byte greater than 11, and an instruction whose mode     *)
(* byte holds a destination or source nibble that is none of NONE, REG,    *)
(* IMM, MEM, sets BAD_INSTR and halts the VM.                              *)
HasMode == CurOp \in (OP_MOV .. OP_JLE)
UnknownNibble(t) == t \notin {OT_NONE, OT_REG, OT_IMM, OT_MEM}

C28_UnknownEncodingHalts ==
    [][(/\ StepTaken
        /\ InCode(1)
        /\ \/ CurOp > OP_SYSCALL
           \/ /\ HasMode /\ InCode(2)
              /\ \/ UnknownNibble(dst_type_of(CurMode))
                 \/ UnknownNibble(src_type_of(CurMode)))
       => /\ ~is_running_'
          /\ HasFlag(registers_[RF]', F_BAD_INSTR)]_vars

\* C28 but for the destination nibble of a branch, which the decoder does
\* not look at
C28_UnknownEncodingHaltsButBranchDst ==
    [][(/\ StepTaken
        /\ InCode(1)
        /\ \/ CurOp > OP_SYSCALL
           \/ /\ HasMode /\ InCode(2)
              /\ \/ UnknownNibble(dst_type_of(CurMode)) /\ CurOp \notin Branches
                 \/ UnknownNibble(src_type_of(CurMode)))
       => /\ ~is_running_'
          /\ HasFlag(registers_[RF]', F_BAD_INSTR)]_vars

-----------------------------------------------------------------------------
(* C29.  SYSCALL with r1 = 1 (WRITE; r2 = fd, r3 = buf, r4 = len): when    *)
(* [buf, buf + len) is not inside memory the VM halts with READ_OOB,       *)
(* writes nothing and leaves r1 as it was; otherwise the bytes             *)
(* memory[buf .. buf + len) are appended to standard error when fd = 2 and *)
(* to standard output for every other fd, the other stream is untouched,   *)
(* r1 becomes len, memory is unchanged and the VM keeps running.           *)
MemSize == code_size_bytes_ + data_size_bytes_
Buf == registers_[R3]
Count == registers_[R4]
RangeInside ==
    Hi(Buf) = 0 /\ Hi(Count) = 0 /\ Lo(Buf) + Lo(Count) <= MemSize

AtSyscall(id) ==
    StepTaken /\ InCode(1) /\ CurOp = OP_SYSCALL /\ registers_[R1] = U32(id)

Range == [k \in 1 .. Lo(Count) |-> memory_image_[Lo(Buf) + k - 1]]

WriteEffect ==
    IF RangeInside
    THEN /\ is_running_'
         /\ registers_[R1]' = Count
         /\ memory_image_' = memory_image_
         /\ IF registers_[R2] = U32(2)
            THEN cerr' = cerr \o Range /\ cout' = cout
            ELSE cout' = cout \o Range /\ cerr' = cerr
    ELSE /\ ~is_running_'
         /\ HasFlag(registers_[RF]', F_READ_OOB)
         /\ cout' = cout /\ cerr' = cerr
         /\ registers_[R1]' = registers_[R1]

C29_WriteSyscall == [][AtSyscall(SC_WRITE) => WriteEffect]_vars

\* C29 for the calls of step() that return
C29_WriteSyscallThatReturns ==
    [][(AtSyscall(SC_WRITE) /\ pc' = pc) => WriteEffect]_vars

\* the WRITE of no bytes at the end of memory is the only one that may not
\* return
C29_AbortOnlyAtEnd ==
    [][(AtSyscall(SC_WRITE) /\ pc' = "aborted")
       => (Count = U32(0) /\ Buf = U32(MemSize))]_vars

\* three bytes of code went to standard output under descriptor 0xFFFFFFFF
C29_Witness ==
    /\ is_running_
    /\ trace # <<>> /\ trace[2] = OP_SYSCALL
    /\ registers_[R2] = Max32
    /\ registers_[R1] = U32(3)
    /\ cout = <<memory_image_[1], memory_image_[2], memory_image_[3]>>
    /\ cerr = <<>>

-----------------------------------------------------------------------------
(* C30.  SYSCALL with r1 = 2 (READ; r2 = fd, r3 = buf, r4 = len): when     *)
(* [buf, buf + len) is not inside memory the VM halts with WRITE_OOB,      *)
(* takes no input and changes no memory; otherwise, for fd = 0, the first  *)
(* n bytes of the input, n the smaller of len and what the input holds,    *)
(* are taken from it and become memory[buf .. buf + n), no other byte      *)
(* changes and r1 = n; for any other fd no input is taken, no byte changes *)
(* and r1 = 0.  The VM keeps running.                                      *)
Taken ==
    IF registers_[R2] # U32(0) THEN 0
    ELSE IF Lo(Count) < Len(cin) THEN Lo(Count) ELSE Len(cin)

ReadEffect ==
    IF RangeInside
    THEN /\ is_running_'
         /\ registers_[R1]' = U32(Taken)
         /\ cin = SubSeq(cin, 1, Taken) \o cin'
         /\ \A k \in DOMAIN memory_image_ :
                memory_image_'[k] =
                    IF k >= Lo(Buf) /\ k < Lo(Buf) + Taken
                    THEN cin[k - Lo(Buf) + 1]
                    ELSE memory_image_[k]
    ELSE /\ ~is_running_'
         /\ HasFlag(registers_[RF]', F_WRITE_OOB)
         /\ cin' = cin
         /\ memory_image_' = memory_image_

C30_ReadSyscall == [][AtSyscall(SC_READ) => ReadEffect]_vars

\* C30 for the calls of step() that return
C30_ReadSyscallThatReturns ==
    [][(AtSyscall(SC_READ) /\ pc' = pc) => ReadEffect]_vars

\* READ asked for three bytes, the input held two: both are in the data
\* region, r1 is 2 and the input is at its end
C30_Witness ==
    /\ is_running_
    /\ trace # <<>> /\ trace[2] = OP_SYSCALL
    /\ registers_[R4] = U32(3)
    /\ registers_[R1] = U32(2)
    /\ cin = <<>>
    /\ memory_image_[code_size_bytes_] = StdinText[1]
    /\ memory_image_[code_size_bytes_ + 1] = StdinText[2]

-----------------------------------------------------------------------------
(* C31.  SYSCALL dispatches on r1.  With r1 = 3 (OPEN) it sets r1 to       *)
(* 0xFFFFFFFF and the VM keeps running: no other register but IP, which    *)
(* has moved past the opcode byte, no memory byte and no stream changes.   *)
(* With r1 other than 0, 1, 2, 3 it sets BAD_INSTR and halts the VM, and   *)
(* r1..r8, rS and memory are as they were.                                 *)
AtAnySyscall == StepTaken /\ InCode(1) /\ CurOp = OP_SYSCALL

KnownIds == {U32(SC_EXIT), U32(SC_WRITE), U32(SC_READ), U32(SC_OPEN)}

-----------------------------------------------------------------------------
(* C32.  Original statement: every instruction that is not a branch (NOP,  *)
(* MOV, ADD, SUB, XOR, CMP, SYSCALL), with any operands, leaves bit 3 of   *)
(* rF (TEST_TRUE) as it was before the instruction.                        *)
TestTrueKept ==
    HasFlag(registers_'[RF], F_TEST_TRUE) = HasFlag(registers_[RF], F_TEST_TRUE)

C32_OnlyBranchesTouchTestTrue ==
    [][(StepTaken /\ InCode(1) /\ CurOp \notin Branches)
       => TestTrueKept]_vars

(* C32, amended.  Every instruction that is not a branch leaves TEST_TRUE  *)
(* as it was, whatever it does to the other bits of rF, unless it is a     *)
(* MOV, ADD, SUB or XOR whose destination register is rF; a step that      *)
(* stops at its entry check leaves it as it was, too.                      *)
C32_OnlyBranchesAndRfWritesTouchTestTrue ==
    [][(StepTaken /\ ~WritesRF /\ (InCode(1) => CurOp \notin Branches))
       => TestTrueKept]_vars

\* `mov rF, 0xFFFFFFFF` / `mov r1, 1` / `cmp r1, 1`: the CMP has cleared GT
\* and LT and kept TEST_TRUE with the rest of rF
C32_Witness ==
    /\ trace # <<>> /\ trace[2] = OP_CMP
    /\ registers_[RF] = <<Half - 1, Half - 1 - F_GT - F_LT>>

-----------------------------------------------------------------------------
(* C33.  The program `start:` / `mov r1, 1` / `jmp start` never halts:     *)
(* after any number of steps the VM is still running and no fault flag is  *)
(* set, and IP is the offset of `start` at the beginning of every          *)
(* iteration, that is, after every second step counted from the step that  *)
(* first reaches `start`.  From the second iteration on the registers and  *)
(* the memory at the beginning of an iteration are the same each time, so  *)
(* the loop repeats for as long as it is stepped.                          *)
StartLine == CHOOSE i \in 1 .. Len(lines) : Declares(i, "start")
StepsToStart == Cardinality({j \in InstrLines : j < StartLine})
AtIterationStart == steps >= StepsToStart /\ (steps - StepsToStart) % 2 = 0

C33_LabelLoopRuns ==
    (lines \in LoopSources /\ pc \in {"run", "returned"})
    => /\ pc = "run" /\ is_running_
       /\ ~AnyFault(registers_[RF])
       /\ AtIterationStart
          => registers_[IP] = code_symbols["start"]
       /\ (AtIterationStart /\ steps > StepsToStart)
          => /\ registers_ = [i \in 0 .. (REG_COUNT - 1) |->
                                 IF i = R1 THEN U32(1)
                                 ELSE IF i = IP THEN U32(SizeBefore(StartLine))
                                 ELSE IF i = RF THEN U32(F_TEST_TRUE)
                                 ELSE U32(0)]
             /\ \A k \in DOMAIN memory_image_ :
                    memory_image_[k]
                        = (out_module.code_section
                           \o out_module.data_section)[k + 1]

\* the third iteration begins, at an offset of `start` other than 0
C33_Witness ==
    /\ lines \in LoopSources
    /\ pc = "run" /\ is_running_
    /\ steps = StepsToStart + 4
    /\ registers_[IP] = U32(1)

-----------------------------------------------------------------------------
(* C34.  Every module that a successful load_bvm returns has an            *)
(* entry_point that is an offset within its code: entry_point is less than *)
(* the size of code_section.                                               *)
WithinCode(m) ==
    Hi(m.entry_point) = 0 /\ Lo(m.entry_point) < Len(m.code_section)

C34_EntryWithinCode == pc = "loaded" => WithinCode(module)

\* C34 for assemble_string: the entry point of an assembled module is 0
C34_AssembledEntryIsZero ==
    pc = "assembled" => out_module.entry_point = U32(0)

\* C34 for assemble_string: 0 is an offset within the code assembled
C34_AssembledEntryWithinCode == pc = "assembled" => WithinCode(out_module)

-----------------------------------------------------------------------------
(* C35.  Original statement: for every register reg and every 32-bit value *)
(* v, set_register(reg, v) followed by get_register(reg) returns v, also   *)
(* on a VM constructed with empty memory that has not executed any step; a *)
(* freshly constructed VM reads 0 from every register except IP, which     *)
(* reads entry_point.                                                      *)
GetAfterSet == call.op = "get" /\ call.prev[1] = "set" /\ call.prev[2] = call.reg
FreshRead(reg) ==
    IF reg = IP THEN module.entry_point ELSE U32(0)

C35_FreshWitness ==
    /\ call.op = "get" /\ call.fresh /\ call.reg = IP /\ call.value = Max32

-----------------------------------------------------------------------------
(* C37.  In a VM whose memory holds code_size + data_size bytes, no step   *)
(* subscripts the memory with an index that is not below its size: not the *)
(* fetches of opcode, mode and operands, not load32 and store32, not the   *)
(* copies of the WRITE and READ syscalls, whatever 32-bit values IP, the   *)
(* addresses and the lengths have.                                         *)
SubscriptOutside == step(Machine).m.ub

C37_SubscriptsInsideMemory ==
    [][(StepTaken /\ memory_size(Machine) = MemSize) => ~SubscriptOutside]_vars

\* C37 for everything but the two syscall copies
C37_FetchLoadStoreInsideMemory ==
    [][(StepTaken /\ ~(InCode(1) /\ CurOp = OP_SYSCALL)) => ~SubscriptOutside]_vars

-----------------------------------------------------------------------------
(* C36.  A step that ends in a fault (IP_OOB from a failed mode or operand *)
(* fetch, BAD_INSTR, READ_OOB or WRITE_OOB) changes nothing but IP and rF: *)
(* r1..r8, rS and every byte of memory are as they were before the step.   *)
FaultedStep == StepTaken /\ is_running_ /\ ~is_running_' /\ ~ExitStep

DataKept ==
    /\ \A i \in (R1 .. R8) \cup {RS} : registers_'[i] = registers_[i]
    /\ memory_image_' = memory_image_

C36_FaultedStepKeepsData == [][FaultedStep => DataKept]_vars

\* C36 for the steps that end in BAD_INSTR, READ_OOB or WRITE_OOB with
\* every fetch done
C36_FaultedAfterFetchKeepsData ==
    [][(FaultedStep /\ ~HasFlag(registers_[RF], F_IP_OOB)
                    /\ ~HasFlag(registers_'[RF], F_IP_OOB))
       => DataKept]_vars

-----------------------------------------------------------------------------
(* C38.  The assembler and the VM agree on the shapes of instructions.  An *)
(* instruction that stands in the code as the assembler emits it (an       *)
(* opcode, and for the others a mode byte and operands that pass the       *)
(* operand checks of the two passes, with register operands that name a    *)
(* register) is executed without BAD_INSTR being raised, unless it is a    *)
(* SYSCALL; and a MOV, ADD, SUB, XOR, CMP or branch whose mode byte has a  *)
(* shape the assembler refuses (MOV [mem],[mem], an immediate destination  *)
(* of MOV, a destination of ADD, SUB, XOR or CMP that is not a register, a *)
(* [mem] branch target) halts the VM with BAD_INSTR.                       *)
OperandTypes == {OT_REG, OT_IMM, OT_MEM}
DstType == dst_type_of(CurMode)
SrcType == src_type_of(CurMode)

\* the byte at IP + k names a register
IsIndex(k) == InCode(k + 1) /\ memory_image_[cur_ip + k] < REG_COUNT

AsmRejects ==
    /\ InCode(2)
    /\ \/ CurOp \in Branches /\ SrcType = OT_MEM
       \/ /\ TwoOperandOp
          /\ DstType \in OperandTypes /\ SrcType \in OperandTypes
          /\ shape_error(CurOp, DstType, SrcType) # ""

AsmEmits ==
    /\ InCode(1)
    /\ \/ CurOp = OP_NOP
       \/ /\ CurOp \in Branches
          /\ InCode(2)
          /\ DstType = OT_NONE /\ SrcType \in {OT_REG, OT_IMM}
          /\ InCode(encoded_size(CurOp, OT_NONE, SrcType))
          /\ SrcType = OT_REG => IsIndex(2)
       \/ /\ TwoOperandOp
          /\ InCode(2)
          /\ DstType \in OperandTypes /\ SrcType \in OperandTypes
          /\ shape_error(CurOp, DstType, SrcType) = ""
          /\ InCode(encoded_size(CurOp, DstType, SrcType))
          /\ DstType = OT_REG => IsIndex(2)
          /\ SrcType = OT_REG => IsIndex(2 + encoded_operand_size(DstType))

C38_ShapesAgree ==
    [][StepTaken
       => /\ (AsmEmits /\ ~WritesRF)
             => (HasFlag(registers_'[RF], F_BAD_INSTR)
                 = HasFlag(registers_[RF], F_BAD_INSTR))
          /\ AsmRejects
             => (~is_running_' /\ HasFlag(registers_'[RF], F_BAD_INSTR))]_vars

\* the VM has refused `cmp 1, r1`, encoded with the mode byte 0x21
C38_Witness ==
    /\ steps = 1 /\ ~is_running_
    /\ trace # <<>> /\ trace[2] = OP_CMP
    /\ memory_image_[1] = OT_IMM * 16 + OT_REG
    /\ registers_[RF] = U32(F_BAD_INSTR)

\* the VM has executed `mov [buf], 0xFFFFFFFF` as the assembler emits it
C38_EmittedWitness ==
    /\ steps = 1 /\ is_running_
    /\ trace # <<>> /\ trace[2] = OP_MOV
    /\ memory_image_[1] = OT_MEM * 16 + OT_IMM
    /\ registers_[RF] = U32(0)
    /\ memory_image_[code_size_bytes_] = Byte - 1

\* C38 for the programs the assembler has assembled: a step that starts at
\* the first byte of an instruction of the source raises BAD_INSTR only if
\* the instruction is a SYSCALL or writes rF
AtSourceInstr ==
    \E i \in InstrLines : registers_[IP] = U32(SizeBefore(i - 1))

C38_AssembledNeverBadInstr ==
    [][(StepTaken /\ AtSourceInstr /\ InCode(1) /\ CurOp # OP_SYSCALL
                  /\ ~WritesRF)
       => (HasFlag(registers_'[RF], F_BAD_INSTR)
           = HasFlag(registers_[RF], F_BAD_INSTR))]_vars

-----------------------------------------------------------------------------
(* C39.  Original statement: in a run that executes no branch and no       *)
(* instruction whose destination register is IP, every step that does not  *)
(* fault strictly increases IP and leaves IP <= code_size, and the VM has   *)
(* halted after at most code_size steps.                                    *)
ReturnedStep == StepTaken /\ pc' # "aborted"

StraightStepAdvances ==
    [][(ReturnedStep /\ ~leaves_line /\ (is_running_' \/ ExitStep))
       => /\ Lt32(registers_[IP], registers_'[IP])
          /\ ~GtSize(registers_'[IP], code_size_bytes_)]_vars

C39_HaltsWithinCodeSize ==
    /\ StraightStepAdvances
    /\ [](straight_line => steps <= code_size_bytes_)

(* C39, amended.  The same, with one more step: a VM that is still running *)
(* has executed at most code_size steps, and the step that halts it is at  *)
(* the latest step code_size + 1.                                          *)
C39_HaltsWithinCodeSizePlusOne ==
    /\ StraightStepAdvances
    /\ [](straight_line => /\ steps <= code_size_bytes_ + 1
                           /\ is_running_ => steps <= code_size_bytes_)

\* three NOPs have been executed and the fourth step has halted the VM with
\* IP_OOB at IP = code_size
C39_Witness ==
    /\ straight_line
    /\ code_size_bytes_ = 3
    /\ steps = 4 /\ ~is_running_
    /\ registers_[IP] = U32(3)
    /\ registers_[RF] = U32(F_IP_OOB)

-----------------------------------------------------------------------------
(* C40.  The second pass resolves the text of an immediate operand, and    *)
(* the inner text of a [mem] operand, as a number if it parses as one,     *)
(* whatever is declared under the same spelling; otherwise as the offset   *)
(* of the code label declared with that spelling; otherwise as the         *)
(* absolute address of the DB name declared with it; and otherwise the     *)
(* assembly fails with `unknown symbol`, naming the text and the line.     *)
LabelNamed(text) == {l \in LabelIndexes : lines[l].name = text}
DbNamed(text) == {d \in DbIndexes : lines[d].name = text}

\* the address of the DB declared on line d: the size of all the code plus
\* the sizes declared before it
AddressOfDb(d) ==
    Add32(U32(SizeBefore(Len(lines))), DeclaredBefore(d - 1)[2])

IsKnown(text) ==
    parse_number(text).ok \/ LabelNamed(text) # {} \/ DbNamed(text) # {}

ByPriority(text) ==
    IF parse_number(text).ok THEN NumberOf[text]
    ELSE IF LabelNamed(text) # {}
    THEN U32(SizeBefore(CHOOSE l \in LabelNamed(text) : TRUE))
    ELSE AddressOfDb(CHOOSE d \in DbNamed(text) : TRUE)

\* the operands of a line that pass two resolves, in the order it does
ResolvedOperands(line) ==
    {p \in 1 .. Len(line.operands) : ~is_register_token(line.operands[p])}

\* pass two is at an instruction
AtInstr ==
    /\ pc = "second_pass"
    /\ line_index <= Len(lines)
    /\ lines[line_index].k = "instr"

C40_ResolutionPriority ==
    [][AtInstr =>
        LET line == lines[line_index]
            unknown == {p \in ResolvedOperands(line) :
                            ~IsKnown(line.operands[p].text)}
        IN  IF unknown = {}
            THEN /\ pc' = "second_pass"
                 /\ \A p \in ResolvedOperands(line) :
                        BytesAt(code_buffer', OperandOffset(line_index, p))
                            = le32(ByPriority(line.operands[p].text))
            ELSE /\ pc' = "asm_failed"
                 /\ error_message'
                        = Err("unknown symbol",
                              line.operands[CHOOSE p \in unknown :
                                  \A q \in unknown : p <= q].text,
                              line.line_number)]_vars

\* `mov r1, 8` has been assembled to the number 8 with a label `8` bound
\* to offset 1 and a DB `8` bound to address 10
C40_Witness ==
    /\ pc = "assembled"
    /\ "8" \in DOMAIN code_symbols /\ code_symbols["8"] = U32(1)
    /\ "8" \in DOMAIN data_symbols /\ data_symbols["8"] = U32(10)
    /\ \E i \in InstrLines :
           /\ lines[i].operands = <<Tok("r1"), Tok("8")>>
           /\ BytesAt(out_module.code_section, OperandOffset(i, 2))
                  = le32(U32(8))

\* `mov [both], r1` has been assembled to the offset 1 of the label `both`
\* with a DB `both` bound to address 10
C40_LabelWitness ==
    /\ pc = "assembled"
    /\ "both" \in DOMAIN code_symbols /\ code_symbols["both"] = U32(1)
    /\ "both" \in DOMAIN data_symbols /\ data_symbols["both"] = U32(10)
    /\ \E i \in InstrLines :
           /\ lines[i].operands = <<Bracket("both"), Tok("r1")>>
           /\ BytesAt(out_module.code_section, OperandOffset(i, 1))
                  = le32(U32(1))

\* `jmp buf` has been assembled to the address 9 of the DB `buf`
C40_DataWitness ==
    /\ pc = "assembled"
    /\ "buf" \notin DOMAIN code_symbols
    /\ \E i \in InstrLines :
           /\ lines[i].operands = <<Tok("buf")>>
           /\ LabelNamed("8") # {}
           /\ BytesAt(out_module.code_section, OperandOffset(i, 1))
                  = le32(U32(9))

\* `mov [nowhere], 8` has failed on its first operand
C40_UnknownWitness ==
    /\ pc = "asm_failed"
    /\ error_message = Err("unknown symbol", "nowhere", 4)
    /\ lines[line_index].operands = <<Bracket("nowhere"), Tok("8")>>

=============================================================================
